---- MODULE Spec2Model ----
(***************************************************************************)
(* A model of the agent runtime state layer of sarathy:                    *)
(*   - Session / SessionManager (src/sarathi/session/manager.py): the      *)
(*     LRU-cached, disk-backed conversation store;                         *)
(*   - SkillManager (src/sarathy/agent/skills.py) and CommandManager       *)
(*     (src/sarathy/core/commands.py): the hot-reloaded skill registry and *)
(*     the command registry derived from it.                               *)
(*                                                                         *)
(* Specifications: Spec, HistorySpec, RoundTripSpec and CacheSpec are the   *)
(* session store (one conversation, one Session alone, sessions with       *)
(* metadata, several conversations); ReloadSpec is the skill watcher with  *)
(* the command registry while skill files change; WatchSpec is the         *)
(* watcher's start / stop lifecycle under concurrent callers.  Wall-clock  *)
(* fields (created_at, updated_at) are left out; a message's timestamp is  *)
(* a logical clock value, which also gives every added message an          *)
(* identity.                                                               *)
(***************************************************************************)
EXTENDS Integers, Sequences, FiniteSets, TLC

\* ------------------------------------------------------------------ bounds
\* Largest max_session_messages and max_cache_size a SessionManager is
\* configured with, number of Session objects constructed, number of
\* add_message calls, largest max_messages passed to get_history.
MaxSessionMessages == 1
MaxCacheSize == 2
MaxObjs == 2
MaxAdds == 2
MaxHistory == 1
\* CacheSpec, which has several keys: Session objects constructed and
\* add_message calls.
CacheObjs == 3
CacheAdds == 1
\* HistorySpec, which has one Session and no files: add_message calls and the
\* largest max_messages.
HistoryAdds == 3
HistoryMax == 3
\* ReloadSpec: reload callbacks registered, coroutines calling start_watching
\* or stop_watching, changes made to the skill directories.
MaxCallbacks == 2
ReloadCallers == 2
MaxFsOps == 2
\* CallbackSpec: reload callbacks, update callbacks, changes made to the skill
\* directories.
ReloadCallbacks == 2
UpdateCallbacks == 3
CallbackFsOps == 2
\* SyncSpec: changes made to the skill directories.
SyncFsOps == 2
\* FrontmatterSpec: changes made to the skill directories.
FrontmatterFsOps == 2
\* ShutdownSpec: callers, callbacks and file changes.
ShutdownCallers == 3
ShutdownCallbacks == 1
ShutdownFsOps == 2
\* WatchSpec: coroutines calling start_watching / stop_watching.
WatchCallers == 3

\* A watcher over files of several names.
NameFsOps == 3

\* MigrationSpec: Session instances, and the time up to which messages are added.
MigrationObjs == 3
MigrationAdds == 1

\* SnapshotSpec: reload callbacks and changes made to the skill directories.
SnapshotCallbacks == 2
SnapshotFsOps == 2

\* RefineSpec: changes made to the skill directories under a running watcher.
RefineFsOps == 2

\* StopSpec: coroutines calling start_watching / stop_watching, reload
\* callbacks, changes made to the skill directories.
StopCallers == 3
StopCallbacks == 1
StopFsOps == 1

\* GatewaySpec: the process ids of the machine and the invocations of
\* start_gateway that may overlap.
GatewayPids == 3
GatewayStarters == 2

\* ------------------------------------------------------------- Python helpers
Min(a, b) == IF a < b THEN a ELSE b
Max(a, b) == IF a > b THEN a ELSE b

\* d.get(k, default) on a dict modelled as a record.
Get(d, k, default) == IF k \in DOMAIN d THEN d[k] ELSE default

\* seq[start:] with Python's clipping of start (negative counts from the end).
PySliceFrom(seq, start) ==
  LET n == Len(seq)
      lo == IF start >= 0 THEN Min(start, n) ELSE Max(n + start, 0)
  IN SubSeq(seq, lo + 1, n)

\* seq[-n:] : the slice from index -n.  -0 is 0, so seq[-0:] is all of seq.
PyLast(seq, n) == PySliceFrom(seq, 0 - n)

\* ------------------------------------------------------------------ keys
\* A session key is a string, modelled as its characters, so that
\* key.replace(":", "_") is computed.  "a:b" and "a_b" differ as keys.
KeyAB == <<"a", ":", "b">>
KeyA_B == <<"a", "_", "b">>
KeyC == <<"c">>
Keys == {KeyAB, KeyA_B, KeyC}

\* _get_session_path: safe_filename(key.replace(":", "_")) + ".jsonl".
\* The file name stands for the path; the keys above hold no other character
\* that safe_filename rewrites.  _get_legacy_session_path derives the same
\* name under the legacy directory.
SessionPath(key) == [i \in 1..Len(key) |-> IF key[i] = ":" THEN "_" ELSE key[i]]

Paths == {SessionPath(k) : k \in Keys}

\* ------------------------------------------------------------------ data
Roles == {"user", "assistant", "tool"}

EmptyMeta == {}
Metas == {EmptyMeta, {<<"topic", "x">>}}

\* add_message's record: role, content, timestamp and the kwargs the agent
\* loop passes for the role (tool_calls on an assistant turn, tool_call_id and
\* name on a tool result).
NewMessage(role, ts) ==
  CASE role = "user" -> [role |-> "user", content |-> "hi", timestamp |-> ts]
    [] role = "assistant" ->
         [role |-> "assistant", content |-> "", timestamp |-> ts, tool_calls |-> "call"]
    [] OTHER ->
         [role |-> "tool", content |-> "out", timestamp |-> ts,
          tool_call_id |-> "call", name |-> "exec"]

NoFile == [exists |-> FALSE, lines |-> <<>>]

\* A line json.loads raises on: the rest of a line cut short.  A file ending
\* in it also stands for one whose read raises part way.
CorruptLine == [_raw |-> "{"]

VARIABLES
  max_cache_size,        \* SessionManager._max_cache_size
  max_session_messages,  \* SessionManager._max_session_messages
  files,                 \* sessions_dir: path -> file (JSON lines)
  legacy,                \* legacy_sessions_dir: path -> file
  heap,                  \* the Session objects constructed so far, by identity
  cache,                 \* SessionManager._cache, an OrderedDict: first = oldest
  clock,                 \* logical time of datetime.now() in add_message
  consolidated,          \* history: timestamps of the messages consolidated so far
  recent,                \* history: keys in order of their last get_or_create or cache insertion
  lastGot,               \* history: key -> the instance its last get_or_create gave, 0 once the
                         \*          key's entry was evicted, invalidated or replaced
  displaced,             \* history: key -> a save put another instance in the key's cache entry
                         \*          since the key's last get_or_create
  rt,                    \* history: the save / remove / reload round trip in progress
  persisted,             \* history: key -> what the last save of the key left to be read
                         \*          back, while only lookups, appends and invalidates followed
  last,                  \* history: the operation just performed and what it returned
  disk,                  \* the skill directories: path -> SKILL.md file
  dirs,                  \* the skill roots that exist
  skills,                \* SkillManager._skills, a dict: entries in insertion order
  reload_callbacks,      \* SkillManager._reload_callbacks
  commands,              \* CommandManager._commands, a dict: entries in insertion order
  watch_task,            \* SkillManager._watch_task: a task, 0 for None
  stop_event,            \* SkillManager._stop_event: an event, 0 for None
  events,                \* the asyncio.Event objects created: whether each is set
  tasks,                 \* the watch tasks created
  callers,               \* the coroutines calling start_watching / stop_watching
  ready,                 \* the event loop's ready queue
  cpu,                   \* the coroutine the event loop is running
  fsops,                 \* number of changes made to the skill directories
  wlast,                 \* history: the watcher's last step
  update_callbacks,      \* CommandManager._update_callbacks
  notified,              \* history: what the last notify_update did
  synced,                \* history: the last direct call on the CommandManager, and the
                         \*          skills and the result of its last sync_from_skill_manager
  osenv,                 \* the process environment: the executables on the search path
                         \*          and os.environ
  lres,                  \* history: what the calls on the SkillsLoader returned
  pid_file,              \* the gateway's PID file: the pid in it, 0 when there is no file
  processes,             \* the machine's processes: pid -> "none", "own" or "foreign"
  starting,              \* the start_gateway calls sleeping: invocation -> child pid
  glast                  \* history: the gateway call just made and what it returned

svars == <<max_cache_size, max_session_messages, files, legacy, heap, cache, clock,
           consolidated, recent, lastGot, displaced, rt, persisted, last>>

\* CommandManager's update notification.
cvars == <<update_callbacks, notified, synced>>

\* The SkillsLoader and the environment it checks requirements against.
lvars == <<osenv, lres>>

\* The gateway's PID file and the processes.
gvars == <<pid_file, processes, starting, glast>>

\* The SkillManager, its watcher and the event loop.
skvars == <<disk, dirs, skills, reload_callbacks, commands, watch_task, stop_event, events,
            tasks, callers, ready, cpu, fsops, wlast>>

kvars == <<skvars, cvars, lvars, gvars>>

vars == <<svars, kvars>>

\* ------------------------------------------------------------- gateway
\* What os.kill(pid, sig) does: it signals a process the caller may signal,
\* raises ProcessLookupError when no process has the pid, and raises
\* PermissionError when the process belongs to another user.  Both errors
\* are OSError.
KillOutcome(procs, pid) ==
  IF procs[pid] = "none" THEN "ProcessLookupError"
  ELSE IF procs[pid] = "foreign" THEN "PermissionError"
  ELSE "ok"

\* read_pid(): the pid write_pid stored, 0 (None) when there is no file.
ReadPid(f) == f

\* clear_pid(): the file is unlinked.
ClearPid == 0

\* write_pid(pid).
WritePid(pid) == pid

\* is_gateway_running(): its result, and the PID file it leaves.
IsGatewayRunningResult(f, procs) ==
  /\ ReadPid(f) # 0
  /\ KillOutcome(procs, ReadPid(f)) = "ok"

IsGatewayRunningFile(f, procs) ==
  IF ReadPid(f) # 0 /\ KillOutcome(procs, ReadPid(f)) # "ok" THEN ClearPid ELSE f

\* The pids no process has; a child that exited keeps its pid until the
\* poll() of the start_gateway that spawned it.
FreePids == {p \in 1..GatewayPids : processes[p] = "none" /\ \A i \in DOMAIN starting : starting[i] # p}

\* The record of a gateway call; tick tells one call from the next.
Gateway(op, pid, result, raised) ==
  [op |-> op, pid |-> pid, result |-> result, raised |-> raised, tick |-> 1 - glast.tick]

GatewayIdle ==
  /\ pid_file = 0
  /\ processes = [p \in 1..GatewayPids |-> "none"]
  /\ starting = [i \in 1..GatewayStarters |-> 0]
  /\ glast = [op |-> "init", pid |-> 0, result |-> FALSE, raised |-> FALSE, tick |-> 0]

\* is_gateway_running(), called directly.
IsGatewayRunning ==
  /\ pid_file' = IsGatewayRunningFile(pid_file, processes)
  /\ glast' = Gateway("is_gateway_running", ReadPid(pid_file),
                      IsGatewayRunningResult(pid_file, processes), FALSE)
  /\ UNCHANGED <<processes, starting>>
  /\ UNCHANGED <<svars, skvars, cvars, lvars>>

\* start_gateway() of invocation i, up to time.sleep(1): RuntimeError when
\* is_gateway_running() says so, else Popen gives the child a free pid.
StartGateway(i) ==
  /\ starting[i] = 0
  /\ IF IsGatewayRunningResult(pid_file, processes)
     THEN /\ glast' = Gateway("start_gateway", ReadPid(pid_file), FALSE, TRUE)
          /\ UNCHANGED <<pid_file, processes, starting>>
     ELSE \E p \in FreePids :
            /\ pid_file' = IsGatewayRunningFile(pid_file, processes)
            /\ processes' = [processes EXCEPT ![p] = "own"]
            /\ starting' = [starting EXCEPT ![i] = p]
            /\ glast' = Gateway("start_gateway", p, FALSE, FALSE)
  /\ UNCHANGED <<svars, skvars, cvars, lvars>>

\* start_gateway() of invocation i after the sleep: a child that exited
\* has the PID file cleared and RuntimeError raised, a child still running
\* has its pid written.
StartGatewayWake(i) ==
  /\ starting[i] # 0
  /\ LET p == starting[i]
         exited == processes[p] # "own"
     IN /\ pid_file' = IF exited THEN ClearPid ELSE WritePid(p)
        /\ glast' = Gateway("start_gateway_wake", p, ~exited, exited)
  /\ starting' = [starting EXCEPT ![i] = 0]
  /\ UNCHANGED processes
  /\ UNCHANGED <<svars, skvars, cvars, lvars>>

\* stop_gateway(); a process sent SIGTERM exits at once or goes on running
\* for a while.
StopGateway(exits) ==
  /\ IF ReadPid(pid_file) = 0
     THEN /\ glast' = Gateway("stop_gateway", 0, FALSE, FALSE)
          /\ UNCHANGED <<pid_file, processes>>
     ELSE LET pid == ReadPid(pid_file)
              sent == KillOutcome(processes, pid) = "ok"
          IN /\ processes' = IF sent /\ exits THEN [processes EXCEPT ![pid] = "none"]
                             ELSE processes
             /\ pid_file' = ClearPid
             /\ glast' = Gateway("stop_gateway", pid, sent, FALSE)
  /\ UNCHANGED starting
  /\ UNCHANGED <<svars, skvars, cvars, lvars>>

\* A process exits by itself.
ProcessExit(p) ==
  /\ processes[p] # "none"
  /\ processes' = [processes EXCEPT ![p] = "none"]
  /\ UNCHANGED <<pid_file, starting, glast>>
  /\ UNCHANGED <<svars, skvars, cvars, lvars>>

\* Another user's process starts and is given a free pid.
ForeignStart(p) ==
  /\ p \in FreePids
  /\ processes' = [processes EXCEPT ![p] = "foreign"]
  /\ UNCHANGED <<pid_file, starting, glast>>
  /\ UNCHANGED <<svars, skvars, cvars, lvars>>

\* ------------------------------------------------------------- skills: data
\* File names, as characters, so that path.endswith("SKILL.md") is computed.
SKILL_MD == <<"S", "K", "I", "L", "L", ".", "m", "d">>
NOTES_MD == <<"n", "o", "t", "e", "s", ".", "m", "d">>

\* str.endswith.
EndsWith(s, suffix) ==
  Len(s) >= Len(suffix) /\ SubSeq(s, Len(s) - Len(suffix) + 1, Len(s)) = suffix

\* A file whose name ends with SKILL.md without being SKILL.md.
MY_SKILL_MD == <<"M", "Y", "_">> \o SKILL_MD

\* The roots: <workspace>/skills and ~/.sarathy/skills are watched, the
\* builtin directory is only scanned.
WatchedRoots == {"workspace", "global"}
Roots == WatchedRoots \cup {"builtin"}
SkillDirs == {"s1", "s2"}

\* <root>/<dir>/<file>.
SkillPath(root, dir, file) == [root |-> root, dir |-> dir, file |-> file]

\* The path as the string awatch reports.
PathString(p) == <<p.root, "/", p.dir, "/">> \o p.file

\* The SKILL.md files of the model, and the other files changes are reported for.
SkillFiles ==
  {SkillPath("workspace", "s1", SKILL_MD), SkillPath("workspace", "s2", SKILL_MD),
   SkillPath("global", "s1", SKILL_MD), SkillPath("builtin", "s1", SKILL_MD)}
OtherFiles == {SkillPath("workspace", "s1", NOTES_MD)}

\* The text of a SKILL.md, by what _parse_commands reads of it.  front is
\* what the text starts with: no "---" line ("none"), a block yaml.safe_load
\* gives a mapping for ("mapping"), a block it gives another value for, a
\* string or a list ("scalar"), or a block it raises on ("invalid").
\* cmdtype is the type of the mapping's commands value: a list of records, a
\* list of strings or a non-zero number; commands are the names of the
\* records, or the strings.
Plain == [front |-> "none", cmdtype |-> "records", commands |-> <<>>]
Declares(names) == [front |-> "mapping", cmdtype |-> "records", commands |-> names]
Contents == {Plain, Declares(<<"c1">>), Declares(<<"c1", "c2">>)}

NotMapping == [front |-> "scalar", cmdtype |-> "records", commands |-> <<>>]
InvalidYaml == [front |-> "invalid", cmdtype |-> "records", commands |-> <<>>]
CommandsStrings == [front |-> "mapping", cmdtype |-> "strings", commands |-> <<"c1">>]
CommandsNumber == [front |-> "mapping", cmdtype |-> "number", commands |-> <<>>]
MalformedContents == {NotMapping, InvalidYaml, CommandsStrings, CommandsNumber}

NoSkillFile == [exists |-> FALSE, content |-> Plain]
SkillFile(content) == [exists |-> TRUE, content |-> content]

\* The file at a path of the skill directories d.
FileAt(d, p) == IF p \in DOMAIN d THEN d[p] ELSE NoSkillFile

\* Python values whose type matters to ==: a str, and a member of the
\* IntEnum watchfiles.Change, which awatch reports as the kind of a change.
Str(s) == [type |-> "str", value |-> s]
Change(member) == [type |-> "Change", value |-> member]

\* a == b.  A Change member is an int: it equals no str.
PyEq(a, b) == a.type = b.type /\ a.value = b.value

NoChange == [type |-> Str(""), path |-> SkillPath("", "", <<>>)]

\* SkillCommand and SkillInfo.
SkillCommand(name, skill_name) ==
  [name |-> name, description |-> "", help_text |-> "", skill_name |-> skill_name]

\* Whether SkillManager._parse_commands(content, skill_name) raises: data.get
\* on a value that is not a mapping (AttributeError), or the loop over a
\* commands value that is a number (TypeError).  A block yaml.safe_load
\* raises on is read as the empty mapping.
ParseRaises(content) ==
  \/ content.front = "scalar"
  \/ content.front = "mapping" /\ content.cmdtype = "number"

\* What SkillManager._parse_commands(content, skill_name) returns when it
\* does not raise: one SkillCommand for each item of the commands list that
\* is a record.
ParseCommands(content, skill_name) ==
  IF content.front # "mapping" \/ content.cmdtype # "records" THEN <<>>
  ELSE [i \in 1..Len(content.commands) |-> SkillCommand(content.commands[i], skill_name)]

SkillInfo(name, path, source, content) ==
  [name |-> name, path |-> path, source |-> source, content |-> content,
   commands |-> ParseCommands(content, name)]

\* SkillManager._skills, a dict: its entries in insertion order.
SkillNames(sk) == {sk[i].name : i \in 1..Len(sk)}

SkillIndex(sk, name) == CHOOSE i \in 1..Len(sk) : sk[i].name = name

\* _skills[name] = info.
SkillsSet(sk, info) ==
  IF info.name \in SkillNames(sk)
  THEN [sk EXCEPT ![SkillIndex(sk, info.name)] = info]
  ELSE Append(sk, info)

\* del _skills[name].
SkillsDel(sk, name) ==
  LET Other(e) == e.name # name IN SelectSeq(sk, Other)

\* SkillManager._load_skills_from_dir over the directories in the order
\* iterdir gives them, from directory number i on.  A skill whose
\* _parse_commands raises is logged and left out.
RECURSIVE LoadSkillsFromDir(_, _, _, _, _)
LoadSkillsFromDir(sk, d, root, order, i) ==
  IF i > Len(order) THEN sk
  ELSE LET p == SkillPath(root, order[i], SKILL_MD)
       IN IF FileAt(d, p).exists /\ ~ParseRaises(FileAt(d, p).content)
          THEN LoadSkillsFromDir(SkillsSet(sk, SkillInfo(order[i], p, root, FileAt(d, p).content)),
                                 d, root, order, i + 1)
          ELSE LoadSkillsFromDir(sk, d, root, order, i + 1)

\* SkillManager._load_all_skills: global, then workspace, then builtin, each
\* if the directory exists.
LoadAllSkills(d, present, order) ==
  LET g == IF "global" \in present THEN LoadSkillsFromDir(<<>>, d, "global", order, 1) ELSE <<>>
      w == IF "workspace" \in present THEN LoadSkillsFromDir(g, d, "workspace", order, 1) ELSE g
  IN IF "builtin" \in present THEN LoadSkillsFromDir(w, d, "builtin", order, 1) ELSE w

\* A handler that keeps the entry a name already has.
HandleFileChange_NoReplace(sk, change, d) ==
  IF change.path.dir \in SkillNames(sk) THEN sk
  ELSE IF FileAt(d, change.path).exists
       THEN SkillsSet(sk, SkillInfo(change.path.dir, change.path,
                                    IF change.path.root = "workspace" THEN "workspace"
                                    ELSE "global",
                                    FileAt(d, change.path).content))
       ELSE sk

\* SkillManager._handle_file_change(change_type, path): the skill map it
\* leaves.  skill_name is the name of the file's directory.  A reload whose
\* _parse_commands raises is logged and leaves the map as it was.
HandleFileChange(sk, change, d) ==
  LET skill_name == change.path.dir
  IN IF PyEq(change.type, Str("deleted"))
     THEN SkillsDel(sk, skill_name)
     ELSE IF FileAt(d, change.path).exists /\ ~ParseRaises(FileAt(d, change.path).content)
          THEN SkillsSet(sk, SkillInfo(skill_name, change.path,
                                       IF change.path.root = "workspace" THEN "workspace"
                                       ELSE "global",
                                       FileAt(d, change.path).content))
          ELSE sk

\* SkillManager.get_commands(): the commands of every skill, in dict order.
RECURSIVE GetCommands(_, _)
GetCommands(sk, i) ==
  IF i > Len(sk) THEN <<>> ELSE sk[i].commands \o GetCommands(sk, i + 1)

\* CommandManager._commands, a dict: its entries in insertion order.
CommandNames(cm) == {cm[i].name : i \in 1..Len(cm)}

CommandInfo(name, description, skill_name, help_text) ==
  [name |-> name, description |-> description, skill_name |-> skill_name,
   help_text |-> help_text]

\* A registration that adds an entry whether or not the name has one.
RegisterCommand_Append(cm, info) == Append(cm, info)

\* CommandManager.register_command: _commands[name] = CommandInfo(...).
RegisterCommand(cm, info) ==
  IF info.name \in CommandNames(cm)
  THEN [cm EXCEPT ![CHOOSE i \in 1..Len(cm) : cm[i].name = info.name] = info]
  ELSE Append(cm, info)

\* CommandManager.unregister_command: del _commands[name] if name is there.
UnregisterCommand(cm, name) ==
  IF name \in CommandNames(cm)
  THEN LET Other(e) == e.name # name IN SelectSeq(cm, Other)
  ELSE cm

\* The skill_name of the entry a name has, "" when it has none.
OwnerOf(cm, name) ==
  IF name \in CommandNames(cm)
  THEN cm[CHOOSE i \in 1..Len(cm) : cm[i].name = name].skill_name
  ELSE ""

\* The loop of sync_from_skill_manager over get_commands(), from command i on.
RECURSIVE RegisterAll(_, _, _)
RegisterAll(cm, cmds, i) ==
  IF i > Len(cmds) THEN cm
  ELSE RegisterAll(RegisterCommand(cm, CommandInfo(cmds[i].name, cmds[i].description,
                                                   cmds[i].skill_name, cmds[i].help_text)),
                   cmds, i + 1)

\* A clear that leaves the commands in place.
ClearCommands_Keep(cm) == cm

\* self._commands.clear().
ClearCommands(cm) == <<>>

\* CommandManager.sync_from_skill_manager(skill_manager) on the command map
\* cm: clear, then register every command get_commands() gives.
SyncFromSkillManager(cm, sk) == RegisterAll(ClearCommands(cm), GetCommands(sk, 1), 1)

NotSynced ==
  [op |-> "none", have |-> FALSE, skills |-> <<>>, result |-> <<>>,
   name |-> "", skill_name |-> "", prior |-> "", fired |-> <<>>]

\* A notification that stops at the first callback that raises, and raises.
RECURSIVE NotifyFrom_Propagate(_, _)
NotifyFrom_Propagate(cbs, i) ==
  IF i > Len(cbs) THEN [calls |-> <<>>, raised |-> FALSE]
  ELSE IF cbs[i] = "raise" THEN [calls |-> <<i>>, raised |-> TRUE]
       ELSE LET rest == NotifyFrom_Propagate(cbs, i + 1)
            IN [calls |-> <<i>> \o rest.calls, raised |-> rest.raised]

\* CommandManager.notify_update over the callbacks from number i on: the
\* callbacks it awaits, and whether it raises.  An exception of a callback
\* is caught and logged, and the loop goes on.
RECURSIVE NotifyFrom(_, _)
NotifyFrom(cbs, i) ==
  IF i > Len(cbs) THEN [calls |-> <<>>, raised |-> FALSE]
  ELSE LET rest == NotifyFrom(cbs, i + 1)
       IN [calls |-> <<i>> \o rest.calls, raised |-> rest.raised]

\* ------------------------------------------------------------- SkillsLoader
\* A SKILL.md whose frontmatter metadata declares required executables and
\* required environment variables.
Requiring(bins, env) ==
  [front |-> "mapping", cmdtype |-> "records", commands |-> <<>>,
   requires |-> [bins |-> bins, env |-> env]]

\* An environment with no executable on the path and no variable set, and
\* a SkillsLoader not called yet.
NoEnv == [path |-> {}, environ |-> <<>>]
NoCalls == [listed_all |-> FALSE, all |-> <<>>, listed_available |-> FALSE,
            available |-> <<>>, summarized |-> FALSE, summary |-> <<>>, loaded |-> {}]

\* Path.exists() for a file of the skill directories.
Exists(d, present, p) == p.root \in present /\ FileAt(d, p).exists

\* One loop of list_skills over the directories of root in iterdir order,
\* from directory number i on: an entry is appended for a directory holding
\* a SKILL.md, for the builtin root only when no entry has the name yet.
RECURSIVE ListDir(_, _, _, _, _, _)
ListDir(found, d, present, root, order, i) ==
  IF i > Len(order) THEN found
  ELSE LET p == SkillPath(root, order[i], SKILL_MD)
           taken == \E k \in 1..Len(found) : found[k].name = order[i]
           add == Exists(d, present, p) /\ (root = "builtin" => ~taken)
       IN ListDir(IF add THEN Append(found, [name |-> order[i], path |-> p, source |-> root])
                  ELSE found,
                  d, present, root, order, i + 1)

\* list_skills(filter_unavailable=False): workspace entries, then builtin ones.
ListAll(d, present, ws_order, builtin_order) ==
  ListDir(ListDir(<<>>, d, present, "workspace", ws_order, 1),
          d, present, "builtin", builtin_order, 1)

\* A load that looks in the builtin directory first.
LoadSkill_BuiltinFirst(d, present, name) ==
  LET w == SkillPath("workspace", name, SKILL_MD)
      b == SkillPath("builtin", name, SKILL_MD)
  IN IF Exists(d, present, b) THEN [found |-> TRUE, path |-> b, content |-> FileAt(d, b).content]
     ELSE IF Exists(d, present, w)
          THEN [found |-> TRUE, path |-> w, content |-> FileAt(d, w).content]
          ELSE [found |-> FALSE, path |-> w, content |-> Plain]

\* load_skill(name): the workspace file if it exists, else the builtin one,
\* else None; with the path read.
LoadSkill(d, present, name) ==
  LET w == SkillPath("workspace", name, SKILL_MD)
      b == SkillPath("builtin", name, SKILL_MD)
  IN IF Exists(d, present, w) THEN [found |-> TRUE, path |-> w, content |-> FileAt(d, w).content]
     ELSE IF Exists(d, present, b)
          THEN [found |-> TRUE, path |-> b, content |-> FileAt(d, b).content]
          ELSE [found |-> FALSE, path |-> w, content |-> Plain]

\* _get_skill_meta(name): the metadata of the frontmatter of what
\* load_skill(name) gives, {} without any.
GetSkillMeta(d, present, name) ==
  LET content == LoadSkill(d, present, name).content
  IN IF "requires" \in DOMAIN content THEN [requires |-> content.requires] ELSE <<>>

\* shutil.which(b) and os.environ.get(env), as truth values.
Which(e, b) == b \in e.path
EnvironGet(e, name) == name \in DOMAIN e.environ /\ e.environ[name] # ""

NoRequires == [bins |-> <<>>, env |-> <<>>]

\* A check that does not look at the environment variables.
CheckRequirements_IgnoreEnv(e, skill_meta) ==
  LET requires == Get(skill_meta, "requires", NoRequires)
  IN \A i \in 1..Len(requires.bins) : Which(e, requires.bins[i])

\* _check_requirements(skill_meta).
CheckRequirements(e, skill_meta) ==
  LET requires == Get(skill_meta, "requires", NoRequires)
  IN /\ \A i \in 1..Len(requires.bins) : Which(e, requires.bins[i])
     /\ \A i \in 1..Len(requires.env) : EnvironGet(e, requires.env[i])

\* _get_missing_requirements(skill_meta): the items ", ".join puts together,
\* "CLI: b" for each executable not found and then "ENV: v" for each
\* variable not set.
GetMissingRequirements(e, skill_meta) ==
  LET requires == Get(skill_meta, "requires", NoRequires)
      NoBin(b) == ~Which(e, b)
      NoVar(v) == ~EnvironGet(e, v)
      bins == SelectSeq(requires.bins, NoBin)
      env == SelectSeq(requires.env, NoVar)
  IN [i \in 1..Len(bins) |-> <<"CLI", bins[i]>>] \o [i \in 1..Len(env) |-> <<"ENV", env[i]>>]

\* list_skills(filter_unavailable=True) over the entries all.
FilterAvailable(all, d, present, e) ==
  LET Ok(entry) == CheckRequirements(e, GetSkillMeta(d, present, entry.name))
  IN SelectSeq(all, Ok)

\* A text, as the sequence of its pieces: each "&", "<" and ">" is a piece
\* of its own and a run of other characters is one piece.  The names below
\* are those that hold such a character.
Spell(s) ==
  CASE s = "a&b" -> <<"a", "&", "b">>
    [] s = "x<y>" -> <<"x", "<", "y", ">">>
    [] OTHER -> <<s>>

\* str.replace(old, new) for a one-character old.
RECURSIVE Replace(_, _, _)
Replace(s, old, new) ==
  IF s = <<>> THEN <<>>
  ELSE (IF Head(s) = old THEN new ELSE <<Head(s)>>) \o Replace(Tail(s), old, new)

\* escape_xml of build_skills_summary: "&" first, then "<", then ">".
EscapeXml(s) ==
  Replace(Replace(Replace(s, "&", <<"&", "amp;">>), "<", <<"&", "lt;">>), ">", <<"&", "gt;">>)

\* _get_skill_description(name): the description of the frontmatter of what
\* load_skill(name) gives, the name without one.
GetSkillDescription(d, present, name) ==
  LET content == LoadSkill(d, present, name).content
  IN IF "description" \in DOMAIN content /\ content.description # <<>>
     THEN content.description
     ELSE Spell(name)

\* str(skill_file): the path of an entry as text.
LocationText(p) == <<p.root, "/">> \o Spell(p.dir) \o <<"/">> \o p.file

\* ", ".join(missing) over the items "CLI: b" and "ENV: v", from item i on.
RECURSIVE MissingText(_, _)
MissingText(missing, i) ==
  IF i > Len(missing) THEN <<>>
  ELSE (IF i > 1 THEN <<", ">> ELSE <<>>)
         \o <<missing[i][1], ": ">> \o Spell(missing[i][2]) \o MissingText(missing, i + 1)

\* build_skills_summary(): one <skill> element for each entry of
\* list_skills(filter_unavailable=False), with its available attribute, its
\* name and location, and its <requires> element when it is unavailable and
\* the missing requirements are not the empty string.  text is the text
\* content written into the <name>, <description>, <location> and <requires>
\* elements.
BuildSkillsSummary(all, d, present, e) ==
  [i \in 1..Len(all) |->
     LET skill_meta == GetSkillMeta(d, present, all[i].name)
         available == CheckRequirements(e, skill_meta)
         missing == GetMissingRequirements(e, skill_meta)
         shown == ~available /\ missing # <<>>
     IN [available |-> IF available THEN "true" ELSE "false",
         name |-> all[i].name, location |-> all[i].path,
         requires |-> IF shown THEN <<missing>> ELSE <<>>,
         text |-> [name |-> EscapeXml(Spell(all[i].name)),
                   description |-> EscapeXml(GetSkillDescription(d, present, all[i].name)),
                   location |-> LocationText(all[i].path),
                   requires |-> IF shown THEN EscapeXml(MissingText(missing, 1)) ELSE <<>>]]]

\* ------------------------------------------------------------- skills: tasks
\* What the event loop runs: a caller's coroutine or a watch task.
Idle == [kind |-> "none", id |-> 0]
CallerId(c) == [kind |-> "caller", id |-> c]
TaskId(t) == [kind |-> "task", id |-> t]

\* A watch task just created by asyncio.create_task(self._watch_loop()).
NewTask ==
  [pc |-> "new", ev |-> 0, watched |-> {}, pending |-> {}, batch |-> <<>>,
   change |-> NoChange, existed |-> FALSE, content |-> Plain, cbi |-> 0, waiters |-> <<>>]

\* What the watcher did last: the step, the task, the change it was at,
\* whether the changed file existed and what it held when the change was
\* handled, and the kind of the callback called.
Watched(op, task, t, cb) ==
  [op |-> op, task |-> t, change |-> task.change, existed |-> task.existed,
   content |-> task.content, cb |-> cb]

\* A SkillManager and a CommandManager just constructed over the skill
\* directories d, of which the roots in present exist.
SkillsInit(d, present, order) ==
  /\ disk = d
  /\ dirs = present
  /\ skills = LoadAllSkills(d, present, order)
  /\ reload_callbacks = <<>>
  /\ commands = <<>>
  /\ watch_task = 0
  /\ stop_event = 0
  /\ events = <<>>
  /\ tasks = <<>>
  /\ callers = <<>>
  /\ ready = <<>>
  /\ cpu = Idle
  /\ fsops = 0
  /\ wlast = Watched("init", NewTask, 0, "")
  /\ update_callbacks = <<>>
  /\ notified = NotifyFrom(<<>>, 1)
  /\ synced = NotSynced
  /\ osenv = NoEnv
  /\ lres = NoCalls
  /\ GatewayIdle

NoDisk == [p \in SkillFiles |-> NoSkillFile]

\* No skill directory, no watcher: the skill side while the sessions are at work.
SkillsIdle == SkillsInit(NoDisk, {}, <<>>)


\* ------------------------------------------------------------- Session
EmptySession(key) ==
  [key |-> key, messages |-> <<>>, metadata |-> EmptyMeta, last_consolidated |-> 0]

\* The index in sliced of the first user-role message, 0 when there is none:
\* the for loop of get_history, which slices only when it breaks.
FirstUser(sliced) ==
  LET users == {i \in 1..Len(sliced) : Get(sliced[i], "role", "") = "user"}
  IN IF users = {} THEN 0 ELSE CHOOSE i \in users : \A j \in users : i <= j

AlignToUser(sliced) ==
  IF FirstUser(sliced) = 0 THEN sliced ELSE SubSeq(sliced, FirstUser(sliced), Len(sliced))

\* The entry get_history builds for one message: role, content and those of
\* tool_calls, tool_call_id, name that the message has.
HistoryEntry(m) ==
  LET keep == {"role", "content"} \cup ({"tool_calls", "tool_call_id", "name"} \cap DOMAIN m)
  IN [k \in keep |-> IF k = "content" THEN Get(m, "content", "") ELSE m[k]]

\* Session.get_history(max_messages).
GetHistoryOf(s, max_messages) ==
  LET unconsolidated == PySliceFrom(s.messages, s.last_consolidated)
      sliced == AlignToUser(PyLast(unconsolidated, max_messages))
  IN [i \in 1..Len(sliced) |-> HistoryEntry(sliced[i])]

\* ------------------------------------------------------------- OrderedDict
CacheKeys(c) == {c[i].key : i \in 1..Len(c)}

CacheGet(c, key) == (CHOOSE i \in 1..Len(c) : c[i].key = key)

CacheObj(c, key) == c[CacheGet(c, key)].obj

CacheRemove(c, key) ==
  LET Other(e) == e.key # key IN SelectSeq(c, Other)

\* A hit that leaves the entry where it is.
MoveToEnd_Stay(c, key) == c

\* OrderedDict.move_to_end(key).
MoveToEnd(c, key) == Append(CacheRemove(c, key), c[CacheGet(c, key)])

\* An assignment that never reaches the cache.
CacheSet_Skip(c, key, obj) == c

\* _cache[key] = obj : a present key keeps its position, a new one goes last.
CacheSet(c, key, obj) ==
  IF key \in CacheKeys(c)
  THEN [c EXCEPT ![CacheGet(c, key)].obj = obj]
  ELSE Append(c, [key |-> key, obj |-> obj])

\* OrderedDict.popitem(last=False): the entry removed and the entries left.
PopItem(c) == [entry |-> Head(c), rest |-> Tail(c)]

\* ------------------------------------------------------------- session files
\* A metadata line written without the session's metadata field.
MetadataLine_NoMetadata(s) ==
  [_type |-> "metadata", key |-> s.key, last_consolidated |-> s.last_consolidated]

\* A metadata line written without last_consolidated.
MetadataLine_NoOffset(s) ==
  [_type |-> "metadata", key |-> s.key, metadata |-> s.metadata]

\* The first line save writes (created_at and updated_at left out).
MetadataLine(s) ==
  [_type |-> "metadata", key |-> s.key, metadata |-> s.metadata,
   last_consolidated |-> s.last_consolidated]

\* The lines save writes: the metadata record, then each message verbatim.
FileLines(s, messages_to_save) == <<MetadataLine(s)>> \o messages_to_save

\* The loop of _load over the lines of a file, from line i on.
RECURSIVE ParseLines(_, _, _)
ParseLines(lines, i, acc) ==
  IF i > Len(lines) THEN acc
  ELSE LET data == lines[i] IN
       IF Get(data, "_type", "") = "metadata"
       THEN ParseLines(lines, i + 1,
              [acc EXCEPT !.metadata = Get(data, "metadata", EmptyMeta),
                          !.last_consolidated = Get(data, "last_consolidated", 0)])
       ELSE ParseLines(lines, i + 1, [acc EXCEPT !.messages = Append(@, data)])

\* Whether the loop of _load raises over these lines: json.loads on a line
\* that is not JSON.
LoadRaises(lines) == \E i \in 1..Len(lines) : "_raw" \in DOMAIN lines[i]

\* The lines before the first one json.loads raises on.
BeforeCorrupt(lines) ==
  IF LoadRaises(lines)
  THEN SubSeq(lines, 1, (CHOOSE i \in 1..Len(lines) :
                           /\ "_raw" \in DOMAIN lines[i]
                           /\ \A j \in 1..(i - 1) : "_raw" \notin DOMAIN lines[j]) - 1)
  ELSE lines

\* A load that gives what it parsed before the line that raised.
Load_KeepParsed(key) ==
  LET path == SessionPath(key)
  IN [files |-> files, legacy |-> legacy, found |-> files[path].exists, migrated |-> FALSE,
      session |-> ParseLines(BeforeCorrupt(files[path].lines), 1, EmptySession(key))]

\* A load that copies the legacy file and leaves it where it was.
Load_CopyLegacy(key) ==
  LET path == SessionPath(key)
      migrate == ~files[path].exists /\ legacy[path].exists
      files1 == IF migrate THEN [files EXCEPT ![path] = legacy[path]] ELSE files
      raises == LoadRaises(files1[path].lines)
  IN [files |-> files1, legacy |-> legacy, found |-> files1[path].exists /\ ~raises,
      migrated |-> migrate,
      session |-> IF raises THEN EmptySession(key)
                  ELSE ParseLines(files1[path].lines, 1, EmptySession(key))]

\* SessionManager._load(key): the legacy file is moved into the workspace
\* when the workspace file is absent (shutil.move succeeding), then the
\* workspace file is parsed.  found is FALSE where _load returns None: with
\* no file, and where reading or parsing raised, which is logged.
Load(key) ==
  LET path == SessionPath(key)
      migrate == ~files[path].exists /\ legacy[path].exists
      files1 == IF migrate THEN [files EXCEPT ![path] = legacy[path]] ELSE files
      legacy1 == IF migrate THEN [legacy EXCEPT ![path] = NoFile] ELSE legacy
      raises == LoadRaises(files1[path].lines)
  IN [files |-> files1, legacy |-> legacy1, found |-> files1[path].exists /\ ~raises,
      migrated |-> migrate,
      session |-> IF raises THEN EmptySession(key)
                  ELSE ParseLines(files1[path].lines, 1, EmptySession(key))]

\* ------------------------------------------------------------- operations
NoKey == <<>>

\* The record of an operation: what was called and what it returned, or
\* that it raised.
Did(op, key, obj) ==
  [op |-> op, key |-> key, obj |-> obj, arg |-> 0, hit |-> FALSE, loaded |-> FALSE,
   found |-> FALSE, evicted |-> NoKey, result |-> <<>>, raised |-> FALSE,
   migrated |-> FALSE]

\* ------------------------------------------------------------- history variables
\* The timestamps of the messages that have been consolidated.
TrackConsolidated ==
  consolidated' =
    IF last'.op = "consolidate"
    THEN consolidated \cup {heap[last'.obj].messages[i].timestamp : i \in 1..last'.arg}
    ELSE consolidated

Touch(r, key) ==
  LET Other(k) == k # key IN Append(SelectSeq(r, Other), key)

\* Recency of use: a get_or_create of a key, or a save that inserts the key
\* into the cache, makes the key the most recent one.
TrackRecent ==
  recent' =
    IF \/ last'.op = "get_or_create"
       \/ last'.op = "save" /\ last'.key \notin CacheKeys(cache)
    THEN Touch(recent, last'.key)
    ELSE recent

\* The instance the last get_or_create of each key gave, forgotten when the
\* key is evicted or invalidated; and whether a save has since put another
\* instance in the key's cache entry.
TrackLastGot ==
  /\ lastGot' =
       [k \in Keys |->
          CASE last'.op = "get_or_create" /\ last'.evicted = k -> 0
            [] last'.op = "get_or_create" /\ last'.key = k -> last'.obj
            [] last'.op = "invalidate" /\ last'.key = k -> 0
            [] OTHER -> lastGot[k]]
  /\ displaced' =
       [k \in Keys |->
          CASE last'.op = "get_or_create" /\ last'.key = k -> FALSE
            [] last'.op = "save" /\ last'.key = k ->
                 displaced[k] \/ (k \in CacheKeys(cache) /\ CacheObj(cache, k) # last'.obj)
            [] OTHER -> displaced[k]]

RtNone == [stage |-> "none", key |-> NoKey, messages |-> <<>>, metadata |-> EmptyMeta]

\* The round trip in progress: a session was saved ("saved"), its key then
\* left the cache by invalidate or eviction ("removed"), and get_or_create of
\* the key then gave last.obj ("reloaded").  Any other operation on a session
\* or on that key ends it.
TrackRoundTrip ==
  rt' =
    CASE last'.op = "save" ->
           [stage |-> "saved", key |-> last'.key, messages |-> heap[last'.obj].messages,
            metadata |-> heap[last'.obj].metadata]
      [] last'.op = "invalidate" /\ rt.stage \in {"saved", "removed"} /\ rt.key = last'.key ->
           [rt EXCEPT !.stage = "removed"]
      [] last'.op = "get_or_create" /\ rt.stage = "removed" /\ rt.key = last'.key ->
           [rt EXCEPT !.stage = "reloaded"]
      [] last'.op = "get_or_create" /\ rt.stage \in {"saved", "removed"}
           /\ rt.key # last'.key ->
           IF last'.evicted = rt.key THEN [rt EXCEPT !.stage = "removed"] ELSE rt
      [] OTHER -> RtNone

NotPersisted == [have |-> FALSE, messages |-> <<>>, last_consolidated |-> 0]

\* What the last successful save of each key persisted: the messages and
\* the last_consolidated of the session as that save left it.  It is kept
\* while get_or_create, add_message, invalidate and reads follow, and
\* forgotten at any other operation: a save under another key, a failed
\* write, a damaged file, a clear or a consolidation.
TrackPersisted ==
  persisted' =
    [k \in Keys |->
       CASE last'.op = "save" /\ last'.key = k ->
              [have |-> TRUE, messages |-> heap'[last'.obj].messages,
               last_consolidated |-> heap'[last'.obj].last_consolidated]
         [] last'.op \in {"get_or_create", "add_message", "invalidate", "get_history",
                          "set_metadata"} -> persisted[k]
         [] OTHER -> NotPersisted]

\* The history variables follow every operation.
Track ==
  TrackConsolidated /\ TrackRecent /\ TrackLastGot /\ TrackRoundTrip /\ TrackPersisted

\* SessionManager.get_or_create(key).
GetOrCreate(key) ==
  /\ IF key \in CacheKeys(cache)
     THEN /\ cache' = MoveToEnd(cache, key)
          /\ last' = [Did("get_or_create", key, CacheObj(cache, key)) EXCEPT !.hit = TRUE]
          /\ UNCHANGED <<files, legacy, heap>>
     ELSE LET loaded == Load(key)
              session == IF loaded.found THEN loaded.session ELSE EmptySession(key)
              obj == Len(heap) + 1
              cache1 == CacheSet(cache, key, obj)
              over == Len(cache1) > max_cache_size
          IN /\ files' = loaded.files
             /\ legacy' = loaded.legacy
             /\ heap' = Append(heap, session)
             /\ cache' = IF over THEN PopItem(cache1).rest ELSE cache1
             /\ last' = [Did("get_or_create", key, obj) EXCEPT
                           !.loaded = TRUE, !.found = loaded.found,
                           !.migrated = loaded.migrated,
                           !.evicted = IF over THEN PopItem(cache1).entry.key ELSE NoKey]
  /\ UNCHANGED <<max_cache_size, max_session_messages, clock>>
  /\ Track
  /\ UNCHANGED kvars

\* Session.add_message(role, content, **kwargs) on the instance obj.
AddMessage(obj, role) ==
  /\ heap' = [heap EXCEPT ![obj].messages = Append(@, NewMessage(role, clock))]
  /\ clock' = clock + 1
  /\ last' = Did("add_message", heap[obj].key, obj)
  /\ UNCHANGED <<max_cache_size, max_session_messages, files, legacy, cache>>
  /\ Track
  /\ UNCHANGED kvars

\* The caller's assignment to Session.metadata.
SetMetadata(obj, meta) ==
  /\ heap[obj].metadata # meta
  /\ heap' = [heap EXCEPT ![obj].metadata = meta]
  /\ last' = Did("set_metadata", heap[obj].key, obj)
  /\ UNCHANGED <<max_cache_size, max_session_messages, files, legacy, cache, clock>>
  /\ Track
  /\ UNCHANGED kvars

\* Consolidation by the agent's memory step: the first n messages have been
\* summarized, last_consolidated advances to n <= len(messages).
Consolidate(obj, n) ==
  /\ heap[obj].last_consolidated < n
  /\ n <= Len(heap[obj].messages)
  /\ heap' = [heap EXCEPT ![obj].last_consolidated = n]
  /\ last' = [Did("consolidate", heap[obj].key, obj) EXCEPT !.arg = n]
  /\ UNCHANGED <<max_cache_size, max_session_messages, files, legacy, cache, clock>>
  /\ Track
  /\ UNCHANGED kvars

\* Session.clear().
Clear(obj) ==
  /\ heap' = [heap EXCEPT ![obj].messages = <<>>, ![obj].last_consolidated = 0]
  /\ last' = Did("clear", heap[obj].key, obj)
  /\ UNCHANGED <<max_cache_size, max_session_messages, files, legacy, cache, clock>>
  /\ Track
  /\ UNCHANGED kvars

\* Session.get_history(max_messages).
GetHistory(obj, max_messages) ==
  /\ last' = [Did("get_history", heap[obj].key, obj) EXCEPT
                !.arg = max_messages, !.result = GetHistoryOf(heap[obj], max_messages)]
  /\ UNCHANGED <<max_cache_size, max_session_messages, files, legacy, heap, cache, clock>>
  /\ Track
  /\ UNCHANGED kvars

\* A truncation that keeps the old last_consolidated.
Truncate_KeepOffset(s, limit) ==
  IF Len(s.messages) > limit THEN [s EXCEPT !.messages = PyLast(s.messages, limit)] ELSE s

\* A truncation that keeps the oldest messages.
Truncate_KeepOldest(s, limit) ==
  IF Len(s.messages) > limit
  THEN [s EXCEPT !.messages = SubSeq(s.messages, 1, limit), !.last_consolidated = 0]
  ELSE s

\* A truncation that resets last_consolidated whether or not it cuts.
Truncate_ResetAlways(s, limit) ==
  [s EXCEPT !.messages = IF Len(s.messages) > limit THEN PyLast(s.messages, limit) ELSE @,
            !.last_consolidated = 0]

\* What save keeps of a session: the messages it writes and the
\* last_consolidated it leaves.
Truncate(s, limit) ==
  IF Len(s.messages) > limit
  THEN [s EXCEPT !.messages = PyLast(s.messages, limit), !.last_consolidated = 0]
  ELSE s

\* A save that writes the truncated list and leaves session.messages as it was.
Save_KeepInMemory(obj) ==
  LET s == heap[obj]
      kept == Truncate(s, max_session_messages)
  IN /\ files' = [files EXCEPT ![SessionPath(s.key)] =
                    [exists |-> TRUE, lines |-> FileLines(kept, kept.messages)]]
     /\ heap' = [heap EXCEPT ![obj].last_consolidated = kept.last_consolidated]
     /\ cache' = CacheSet(cache, s.key, obj)
     /\ last' = Did("save", s.key, obj)
     /\ UNCHANGED <<max_cache_size, max_session_messages, legacy, clock>>
     /\ Track
     /\ UNCHANGED kvars

\* SessionManager.save(session), the write succeeding.
Save(obj) ==
  LET s == heap[obj]
      kept == Truncate(s, max_session_messages)
  IN /\ files' = [files EXCEPT ![SessionPath(s.key)] =
                    [exists |-> TRUE, lines |-> FileLines(kept, kept.messages)]]
     /\ heap' = [heap EXCEPT ![obj] = kept]
     /\ cache' = CacheSet(cache, s.key, obj)
     /\ last' = Did("save", s.key, obj)
     /\ UNCHANGED <<max_cache_size, max_session_messages, legacy, clock>>
     /\ Track
     /\ UNCHANGED kvars

\* What a write that fails can leave at a path that held old and was to hold
\* lines: old when open raises, otherwise a file cut after some of the
\* lines, with or without the beginning of the next one.
WriteFailures(old, lines) ==
  {old}
    \cup {[exists |-> TRUE, lines |-> SubSeq(lines, 1, n)] : n \in 0..Len(lines)}
    \cup {[exists |-> TRUE, lines |-> Append(SubSeq(lines, 1, n), CorruptLine)] :
           n \in 0..(Len(lines) - 1)}

\* The lines save is to write for the instance obj.
WouldWrite(obj) ==
  LET kept == Truncate(heap[obj], max_session_messages)
  IN FileLines(kept, kept.messages)

\* SessionManager.save(session), open or a write raising OSError: the
\* exception leaves save, after the truncation has reset last_consolidated
\* and before session.messages and the cache are assigned.
SaveFails(obj, left) ==
  LET s == heap[obj]
      kept == Truncate(s, max_session_messages)
  IN /\ left \in WriteFailures(files[SessionPath(s.key)], WouldWrite(obj))
     /\ files' = [files EXCEPT ![SessionPath(s.key)] = left]
     /\ heap' = [heap EXCEPT ![obj].last_consolidated = kept.last_consolidated]
     /\ last' = [Did("save_failed", s.key, obj) EXCEPT !.raised = TRUE]
     /\ UNCHANGED <<max_cache_size, max_session_messages, legacy, cache, clock>>
     /\ Track
     /\ UNCHANGED kvars

\* Outside the program: the file of key is damaged after its first n lines.
Corrupt(key, n) ==
  LET path == SessionPath(key)
  IN /\ files[path].exists
     /\ ~LoadRaises(files[path].lines)
     /\ n <= Len(files[path].lines)
     /\ files' = [files EXCEPT ![path].lines = Append(SubSeq(@, 1, n), CorruptLine)]
     /\ last' = Did("corrupt", key, 0)
     /\ UNCHANGED <<max_cache_size, max_session_messages, legacy, heap, cache, clock>>
     /\ Track
     /\ UNCHANGED kvars

\* An invalidate that empties the cache.
Invalidate_All(key) ==
  /\ cache' = <<>>
  /\ last' = Did("invalidate", key, 0)
  /\ UNCHANGED <<max_cache_size, max_session_messages, files, legacy, heap, clock>>
  /\ Track
  /\ UNCHANGED kvars

\* SessionManager.invalidate(key).
Invalidate(key) ==
  /\ cache' = CacheRemove(cache, key)
  /\ last' = Did("invalidate", key, 0)
  /\ UNCHANGED <<max_cache_size, max_session_messages, files, legacy, heap, clock>>
  /\ Track
  /\ UNCHANGED kvars

Objs == 1..Len(heap)

\* A SessionManager just constructed, with max_cache_size in caches and
\* max_session_messages in limits, over one of the sessions directories in
\* workspaces and one of the legacy directories in legacies.
ManagerOver(caches, limits, workspaces, legacies) ==
  /\ max_cache_size \in caches
  /\ max_session_messages \in limits
  /\ files \in workspaces
  /\ legacy \in legacies
  /\ heap = <<>>
  /\ cache = <<>>
  /\ clock = 1
  /\ consolidated = {}
  /\ recent = <<>>
  /\ lastGot = [k \in Keys |-> 0]
  /\ displaced = [k \in Keys |-> FALSE]
  /\ rt = RtNone
  /\ persisted = [k \in Keys |-> NotPersisted]
  /\ last = Did("init", NoKey, 0)

\* The same over an empty sessions directory, with no legacy file.
ManagerInit(caches, limits) ==
  ManagerOver(caches, limits, {[p \in Paths |-> NoFile]}, {[p \in Paths |-> NoFile]})

\* No session, the cache empty: the session side while the skills are at work.
SessionsIdle == ManagerInit({MaxCacheSize}, {MaxSessionMessages})

\* ------------------------------------------------------------- HistorySpec
\* One Session, constructed directly, and the methods of Session.
HistoryInit ==
  /\ max_cache_size = 1
  /\ max_session_messages = MaxSessionMessages
  /\ files = [p \in Paths |-> NoFile]
  /\ legacy = [p \in Paths |-> NoFile]
  /\ heap = <<EmptySession(KeyAB)>>
  /\ cache = <<>>
  /\ clock = 1
  /\ consolidated = {}
  /\ recent = <<>>
  /\ lastGot = [k \in Keys |-> 0]
  /\ displaced = [k \in Keys |-> FALSE]
  /\ rt = RtNone
  /\ persisted = [k \in Keys |-> NotPersisted]
  /\ last = Did("init", NoKey, 0)
  /\ SkillsIdle

HistoryNext ==
  \/ \E obj \in Objs, role \in Roles : clock <= HistoryAdds /\ AddMessage(obj, role)
  \/ \E obj \in Objs, n \in 1..HistoryAdds : Consolidate(obj, n)
  \/ \E obj \in Objs : Clear(obj)
  \/ \E obj \in Objs, max_messages \in 0..HistoryMax : GetHistory(obj, max_messages)


\* ------------------------------------------------------------- Spec: one conversation
\* The sessions of one key.  With max_cache_size = 0 every get_or_create
\* evicts the entry it inserts, so the next one reloads from disk.
SpecKeys == {KeyAB}

Init == ManagerInit(0..1, 0..MaxSessionMessages) /\ SkillsIdle

Next ==
  \/ \E key \in SpecKeys :
       (key \in CacheKeys(cache) \/ Len(heap) < MaxObjs) /\ GetOrCreate(key)
  \/ \E obj \in Objs, role \in Roles : clock <= MaxAdds /\ AddMessage(obj, role)
  \/ \E obj \in Objs, n \in 1..MaxAdds : Consolidate(obj, n)
  \/ \E obj \in Objs : Clear(obj)
  \/ \E obj \in Objs, max_messages \in 0..MaxHistory : GetHistory(obj, max_messages)
  \/ \E obj \in Objs : Save(obj)
  \/ \E key \in SpecKeys : Invalidate(key)



Spec == Init /\ [][Next]_vars

HistorySpec == HistoryInit /\ [][HistoryNext]_vars

\* ------------------------------------------------------------- RoundTripSpec
\* Sessions of one key with their metadata: saved, dropped from the cache
\* by invalidate or eviction, and loaded again.
RoundTripNext ==
  \/ \E key \in SpecKeys :
       (key \in CacheKeys(cache) \/ Len(heap) < MaxObjs) /\ GetOrCreate(key)
  \/ \E obj \in Objs, role \in Roles : clock <= MaxAdds /\ AddMessage(obj, role)
  \/ \E obj \in Objs, meta \in Metas : SetMetadata(obj, meta)
  \/ \E obj \in Objs : Save(obj)
  \/ \E key \in SpecKeys : Invalidate(key)


RoundTripSpec == Init /\ [][RoundTripNext]_vars

\* ------------------------------------------------------------- CacheSpec
\* Several conversations competing for a cache of max_cache_size entries.
CacheInit == ManagerInit(0..MaxCacheSize, {MaxSessionMessages}) /\ SkillsIdle

CacheNext ==
  \/ \E key \in Keys :
       (key \in CacheKeys(cache) \/ Len(heap) < CacheObjs) /\ GetOrCreate(key)
  \/ \E obj \in Objs : clock <= CacheAdds /\ AddMessage(obj, "user")
  \/ \E obj \in Objs : Save(obj)
  \/ \E key \in Keys : Invalidate(key)

CacheSpec == CacheInit /\ [][CacheNext]_vars

\* ------------------------------------------------------------- FailureSpec
\* The sessions of one key over a disk that fails: writes that raise and
\* files that are damaged.
FailureNext ==
  \/ \E key \in SpecKeys :
       (key \in CacheKeys(cache) \/ Len(heap) < MaxObjs) /\ GetOrCreate(key)
  \/ \E obj \in Objs : clock <= MaxAdds /\ AddMessage(obj, "user")
  \/ \E obj \in Objs : Save(obj)
  \/ \E obj \in Objs :
       \E left \in WriteFailures(files[SessionPath(heap[obj].key)], WouldWrite(obj)) :
         SaveFails(obj, left)
  \/ \E key \in SpecKeys, n \in 0..(MaxSessionMessages + 1) : Corrupt(key, n)
  \/ \E key \in SpecKeys : Invalidate(key)

FailureSpec == Init /\ [][FailureNext]_vars

\* ------------------------------------------------------------- MigrationSpec
\* A SessionManager constructed where earlier versions left session files in
\* the legacy directory, some of them damaged, next to workspace files.
\* A file written earlier: its metadata line and one message from before
\* this manager's clock.
OldFile(n, content) ==
  [exists |-> TRUE,
   lines |-> <<[_type |-> "metadata", key |-> KeyAB, metadata |-> EmptyMeta,
                last_consolidated |-> n],
               [role |-> "user", content |-> content, timestamp |-> 0]>>]

LegacyFiles == {NoFile, OldFile(0, "legacy"), OldFile(1, "legacy"),
                [exists |-> TRUE, lines |-> <<CorruptLine>>]}

WorkspaceFiles == {NoFile, OldFile(0, "workspace")}

\* The two keys that share a file name.
MigrationKeys == {KeyAB, KeyA_B}

\* The directories in which the file of those keys is one of fs.
Holding(fs) == {[p \in Paths |-> IF p = SessionPath(KeyAB) THEN f ELSE NoFile] : f \in fs}

MigrationInit ==
  /\ ManagerOver(0..1, {MaxSessionMessages}, Holding(WorkspaceFiles), Holding(LegacyFiles))
  /\ SkillsIdle

MigrationNext ==
  \/ \E key \in MigrationKeys :
       (key \in CacheKeys(cache) \/ Len(heap) < MigrationObjs) /\ GetOrCreate(key)
  \/ \E obj \in Objs : clock <= MigrationAdds /\ AddMessage(obj, "user")
  \/ \E obj \in Objs : Save(obj)
  \/ \E key \in MigrationKeys : Invalidate(key)

MigrationSpec == MigrationInit /\ [][MigrationNext]_vars

\* ------------------------------------------------------------- OffsetSpec
\* The sessions of one key whose file, written by an earlier run, may hold a
\* consolidated message: loaded, extended, cleared, saved and dropped.
OffsetInit ==
  /\ ManagerOver(0..1, 0..MaxSessionMessages,
                 Holding({NoFile, OldFile(0, "workspace"), OldFile(1, "workspace")}),
                 Holding({NoFile}))
  /\ SkillsIdle

OffsetNext ==
  \/ \E key \in SpecKeys :
       (key \in CacheKeys(cache) \/ Len(heap) < MaxObjs) /\ GetOrCreate(key)
  \/ \E obj \in Objs, role \in Roles : clock <= MaxAdds /\ AddMessage(obj, role)
  \/ \E obj \in Objs : Clear(obj)
  \/ \E obj \in Objs, max_messages \in 0..MaxHistory : GetHistory(obj, max_messages)
  \/ \E obj \in Objs : Save(obj)
  \/ \E key \in SpecKeys : Invalidate(key)

OffsetSpec == OffsetInit /\ [][OffsetNext]_vars

\* ------------------------------------------------------------- WriteErrorSpec
\* The sessions of one key whose file may hold a consolidated message, over
\* a disk on which a write can raise.
WriteErrorNext ==
  \/ \E key \in SpecKeys :
       (key \in CacheKeys(cache) \/ Len(heap) < MaxObjs) /\ GetOrCreate(key)
  \/ \E obj \in Objs : clock <= MaxAdds /\ AddMessage(obj, "user")
  \/ \E obj \in Objs : Save(obj)
  \/ \E obj \in Objs :
       \E left \in WriteFailures(files[SessionPath(heap[obj].key)], WouldWrite(obj)) :
         SaveFails(obj, left)
  \/ \E key \in SpecKeys : Invalidate(key)

WriteErrorSpec == OffsetInit /\ [][WriteErrorNext]_vars

\* ------------------------------------------------------------- skills: operations
\* The event loop runs one coroutine at a time, from the head of its FIFO
\* ready queue, until that coroutine suspends or ends.
Runs(e) == cpu = e \/ (cpu = Idle /\ ready # <<>> /\ Head(ready) = e)

ReadyRest == IF cpu = Idle THEN Tail(ready) ELSE ready

\* The callers a finished task wakes: its done callbacks, in the order the
\* callers awaited it.
Wake(q, waiters) == q \o [i \in 1..Len(waiters) |-> CallerId(waiters[i])]

\* A caller that has run op number pc of its program goes on to the next
\* one without suspending, or ends.
CallerAfter(c) ==
  IF callers[c].pc < Len(callers[c].prog) THEN CallerId(c) ELSE Idle

\* SkillManager.on_reload(callback).
OnReload(kind) ==
  /\ cpu = Idle
  /\ reload_callbacks' = Append(reload_callbacks, kind)
  /\ UNCHANGED <<disk, dirs, skills, commands, watch_task, stop_event, events, tasks,
                 callers, ready, cpu, fsops, wlast>>
  /\ UNCHANGED <<svars, cvars, lvars, gvars>>

\* CommandManager.on_update(callback).
OnUpdate(kind) ==
  /\ cpu = Idle
  /\ update_callbacks' = Append(update_callbacks, kind)
  /\ UNCHANGED <<disk, dirs, skills, reload_callbacks, commands, watch_task, stop_event,
                 events, tasks, callers, ready, cpu, fsops, wlast, notified, synced>>
  /\ UNCHANGED <<svars, lvars, gvars>>

\* CommandManager.notify_update(), its callbacks returning or raising
\* without suspending.
NotifyUpdate ==
  /\ cpu = Idle
  /\ notified' = NotifyFrom(update_callbacks, 1)
  /\ UNCHANGED <<disk, dirs, skills, reload_callbacks, commands, watch_task, stop_event,
                 events, tasks, callers, ready, cpu, fsops, wlast, update_callbacks, synced>>
  /\ UNCHANGED <<svars, lvars, gvars>>

\* CommandManager.register_command(name, description, skill_name), called
\* directly.
Register(name, skill_name) ==
  /\ cpu = Idle
  /\ commands' = RegisterCommand(commands, CommandInfo(name, "", skill_name, ""))
  /\ synced' = [synced EXCEPT !.op = "register", !.name = name, !.skill_name = skill_name,
                               !.prior = OwnerOf(commands, name)]
  /\ UNCHANGED <<disk, dirs, skills, reload_callbacks, watch_task, stop_event, events,
                 tasks, callers, ready, cpu, fsops, wlast, update_callbacks, notified>>
  /\ UNCHANGED <<svars, lvars, gvars>>

\* CommandManager.unregister_command(name), called directly.
Unregister(name) ==
  /\ cpu = Idle
  /\ commands' = UnregisterCommand(commands, name)
  /\ synced' = [synced EXCEPT !.op = "unregister", !.name = name, !.skill_name = "",
                               !.prior = OwnerOf(commands, name)]
  /\ UNCHANGED <<disk, dirs, skills, reload_callbacks, watch_task, stop_event, events,
                 tasks, callers, ready, cpu, fsops, wlast, update_callbacks, notified>>
  /\ UNCHANGED <<svars, lvars, gvars>>

\* CommandManager.sync_from_skill_manager(skill_manager), called directly.
\* fired is the update callbacks the call invokes: it makes no call of
\* notify_update, so none.
Sync ==
  /\ cpu = Idle
  /\ commands' = SyncFromSkillManager(commands, skills)
  /\ synced' = [NotSynced EXCEPT !.op = "sync", !.have = TRUE, !.skills = skills,
                                  !.result = commands']
  /\ UNCHANGED <<disk, dirs, skills, reload_callbacks, watch_task, stop_event, events,
                 tasks, callers, ready, cpu, fsops, wlast, update_callbacks, notified>>
  /\ UNCHANGED <<svars, lvars, gvars>>

\* await _handle_file_change(change_type, path), called directly with the
\* change type as the str its signature names.
HandleDirect(change_type, p) ==
  /\ cpu = Idle
  /\ skills' = HandleFileChange(skills, [type |-> Str(change_type), path |-> p], disk)
  /\ skills' # skills
  /\ UNCHANGED <<disk, dirs, reload_callbacks, commands, watch_task, stop_event, events,
                 tasks, callers, ready, cpu, fsops, wlast>>
  /\ UNCHANGED <<svars, cvars, lvars, gvars>>

\* SkillsLoader.list_skills(filter_unavailable), iterdir giving the skill
\* directories of the two roots in the orders given.
ListSkills(filter_unavailable, ws_order, builtin_order) ==
  /\ cpu = Idle
  /\ LET all == ListAll(disk, dirs, ws_order, builtin_order)
     IN lres' = IF filter_unavailable
                THEN [lres EXCEPT !.listed_available = TRUE,
                                  !.available = FilterAvailable(all, disk, dirs, osenv)]
                ELSE [lres EXCEPT !.listed_all = TRUE, !.all = all]
  /\ UNCHANGED <<disk, dirs, skills, reload_callbacks, commands, watch_task, stop_event,
                 events, tasks, callers, ready, cpu, fsops, wlast, osenv>>
  /\ UNCHANGED <<svars, cvars, gvars>>

\* SkillsLoader.load_skill(name).
LoadSkillCall(name) ==
  /\ cpu = Idle
  /\ lres' = [lres EXCEPT !.loaded = @ \cup {[name |-> name,
                                                result |-> LoadSkill(disk, dirs, name)]}]
  /\ UNCHANGED <<disk, dirs, skills, reload_callbacks, commands, watch_task, stop_event,
                 events, tasks, callers, ready, cpu, fsops, wlast, osenv>>
  /\ UNCHANGED <<svars, cvars, gvars>>

\* SkillsLoader.build_skills_summary().
BuildSummary(ws_order, builtin_order) ==
  /\ cpu = Idle
  /\ lres' = [lres EXCEPT !.summarized = TRUE,
                          !.summary = BuildSkillsSummary(
                                        ListAll(disk, dirs, ws_order, builtin_order),
                                        disk, dirs, osenv)]
  /\ UNCHANGED <<disk, dirs, skills, reload_callbacks, commands, watch_task, stop_event,
                 events, tasks, callers, ready, cpu, fsops, wlast, osenv>>
  /\ UNCHANGED <<svars, cvars, gvars>>

\* A coroutine that will call start_watching / stop_watching in the order
\* prog is created as a task of the event loop.
Spawn(prog) ==
  /\ cpu = Idle
  /\ callers' = Append(callers, [prog |-> prog, pc |-> 1, waiting |-> 0])
  /\ ready' = Append(ready, CallerId(Len(callers) + 1))
  /\ UNCHANGED <<disk, dirs, skills, reload_callbacks, commands, watch_task, stop_event,
                 events, tasks, cpu, fsops, wlast>>
  /\ UNCHANGED <<svars, cvars, lvars, gvars>>

\* SkillManager.start_watching(), called by caller c.
StartWatching(c) ==
  /\ Runs(CallerId(c))
  /\ callers[c].pc <= Len(callers[c].prog)
  /\ callers[c].prog[callers[c].pc] = "start"
  /\ IF watch_task # 0
     THEN /\ ready' = ReadyRest
          /\ UNCHANGED <<stop_event, events, tasks, watch_task>>
     ELSE /\ events' = Append(events, FALSE)
          /\ stop_event' = Len(events) + 1
          /\ tasks' = Append(tasks, NewTask)
          /\ watch_task' = Len(tasks) + 1
          /\ ready' = Append(ReadyRest, TaskId(Len(tasks) + 1))
  /\ callers' = [callers EXCEPT ![c].pc = @ + 1]
  /\ cpu' = CallerAfter(c)
  /\ UNCHANGED <<disk, dirs, skills, reload_callbacks, commands, fsops, wlast>>
  /\ UNCHANGED <<svars, cvars, lvars, gvars>>

\* SkillManager.stop_watching(), called by caller c, up to its await: it
\* returns at once with no task registered or with the task already done,
\* and otherwise suspends until the task is done.
StopWatching(c) ==
  /\ Runs(CallerId(c))
  /\ callers[c].pc <= Len(callers[c].prog)
  /\ callers[c].prog[callers[c].pc] = "stop"
  /\ callers[c].waiting = 0
  /\ IF watch_task = 0
     THEN /\ callers' = [callers EXCEPT ![c].pc = @ + 1]
          /\ cpu' = CallerAfter(c)
          /\ UNCHANGED <<stop_event, events, tasks, watch_task>>
     ELSE /\ stop_event # 0
          /\ events' = [events EXCEPT ![stop_event] = TRUE]
          /\ IF tasks[watch_task].pc = "done"
             THEN /\ watch_task' = 0
                  /\ stop_event' = 0
                  /\ callers' = [callers EXCEPT ![c].pc = @ + 1]
                  /\ cpu' = CallerAfter(c)
                  /\ UNCHANGED tasks
             ELSE /\ tasks' = [tasks EXCEPT ![watch_task].waiters = Append(@, c)]
                  /\ callers' = [callers EXCEPT ![c].waiting = watch_task]
                  /\ cpu' = Idle
                  /\ UNCHANGED <<watch_task, stop_event>>
  /\ ready' = ReadyRest
  /\ UNCHANGED <<disk, dirs, skills, reload_callbacks, commands, fsops, wlast>>
  /\ UNCHANGED <<svars, cvars, lvars, gvars>>

\* stop_watching after its await: the awaited task is done, the caller
\* clears _watch_task and _stop_event and returns.
StopWatchingResume(c) ==
  /\ Runs(CallerId(c))
  /\ callers[c].waiting # 0
  /\ watch_task' = 0
  /\ stop_event' = 0
  /\ callers' = [callers EXCEPT ![c].pc = @ + 1, ![c].waiting = 0]
  /\ cpu' = CallerAfter(c)
  /\ ready' = ReadyRest
  /\ UNCHANGED <<disk, dirs, skills, reload_callbacks, commands, events, tasks, fsops, wlast>>
  /\ UNCHANGED <<svars, cvars, lvars, gvars>>

\* _watch_loop from its start to its first suspension: with no watch
\* directory it returns; otherwise it calls awatch on the directories that
\* exist, with the stop event the manager holds at that moment.
WatchStart(t) ==
  /\ Runs(TaskId(t))
  /\ tasks[t].pc = "new"
  /\ LET watch_dirs == dirs \cap WatchedRoots
     IN IF watch_dirs = {}
        THEN /\ tasks' = [tasks EXCEPT ![t].pc = "done", ![t].waiters = <<>>]
             /\ ready' = Wake(ReadyRest, tasks[t].waiters)
        ELSE /\ tasks' = [tasks EXCEPT ![t].pc = "awatch", ![t].ev = stop_event,
                                       ![t].watched = watch_dirs]
             /\ ready' = ReadyRest
  /\ cpu' = Idle
  /\ wlast' = Watched("started", NewTask, t, "")
  /\ UNCHANGED <<disk, dirs, skills, reload_callbacks, commands, watch_task, stop_event,
                 events, callers, fsops>>
  /\ UNCHANGED <<svars, cvars, lvars, gvars>>

\* awatch raises, a watched directory having gone or the watcher failing:
\* the except clause of _watch_loop logs the error and the task is made
\* ready to leave its loop.
AwatchRaises(t) ==
  /\ tasks[t].pc = "awatch"
  /\ tasks' = [tasks EXCEPT ![t].pc = "stopping"]
  /\ ready' = Append(ready, TaskId(t))
  /\ UNCHANGED <<disk, dirs, skills, reload_callbacks, commands, watch_task, stop_event,
                 events, callers, cpu, fsops, wlast>>
  /\ UNCHANGED <<svars, cvars, lvars, gvars>>

\* The orders in which a set of changes can be iterated.
Orders(S) ==
  {seq \in [1..Cardinality(S) -> S] :
     \A i, j \in 1..Cardinality(S) : i # j => seq[i] # seq[j]}

\* awatch yields: the debounce window has elapsed over the changes seen and
\* the stop event is not set.  The task is made ready with the batch.
AwatchYield(t, batch) ==
  /\ tasks[t].pc = "awatch"
  /\ tasks[t].pending # {}
  /\ batch \in Orders(tasks[t].pending)
  /\ ~(tasks[t].ev # 0 /\ events[tasks[t].ev])
  /\ tasks' = [tasks EXCEPT ![t].pc = "batch", ![t].batch = batch, ![t].pending = {}]
  /\ ready' = Append(ready, TaskId(t))
  /\ UNCHANGED <<disk, dirs, skills, reload_callbacks, commands, watch_task, stop_event,
                 events, callers, cpu, fsops, wlast>>
  /\ UNCHANGED <<svars, cvars, lvars, gvars>>

\* awatch sees its stop event set and ends: the task is made ready to leave
\* its loop.
AwatchStop(t) ==
  /\ tasks[t].pc = "awatch"
  /\ tasks[t].ev # 0 /\ events[tasks[t].ev]
  /\ tasks' = [tasks EXCEPT ![t].pc = "stopping"]
  /\ ready' = Append(ready, TaskId(t))
  /\ UNCHANGED <<disk, dirs, skills, reload_callbacks, commands, watch_task, stop_event,
                 events, callers, cpu, fsops, wlast>>
  /\ UNCHANGED <<svars, cvars, lvars, gvars>>

\* _watch_loop returns after awatch has ended: the task is done and the
\* callers awaiting it are woken.
WatchExit(t) ==
  /\ Runs(TaskId(t))
  /\ tasks[t].pc = "stopping"
  /\ tasks' = [tasks EXCEPT ![t].pc = "done", ![t].waiters = <<>>]
  /\ ready' = Wake(ReadyRest, tasks[t].waiters)
  /\ cpu' = Idle
  /\ wlast' = Watched("exited", NewTask, t, "")
  /\ UNCHANGED <<disk, dirs, skills, reload_callbacks, commands, watch_task, stop_event,
                 events, callers, fsops>>
  /\ UNCHANGED <<svars, cvars, lvars, gvars>>

\* Where the watch task is after the callbacks of a change, or after a
\* change it skipped: at the next change of the batch, or back in awatch.
NextChange(task) ==
  IF task.batch # <<>> THEN [task EXCEPT !.pc = "batch", !.cbi = 0]
  ELSE [task EXCEPT !.pc = "awatch", !.cbi = 0]

\* Where the watch task is after callback number i: at the next callback,
\* or past the callbacks.
NextCallback(task, i) ==
  IF i < Len(reload_callbacks) THEN [task EXCEPT !.pc = "callback", !.cbi = i + 1]
  ELSE NextChange(task)

\* The coroutine that keeps the event loop: the task while it has more to
\* do without suspending.
TaskAfter(t, task) == IF task.pc \in {"batch", "callback"} THEN TaskId(t) ELSE Idle

\* The body of the loop over a batch, for its next change: a path that does
\* not end with SKILL.md is skipped, any other is handled.
WatchChange(t) ==
  /\ Runs(TaskId(t))
  /\ tasks[t].pc = "batch"
  /\ LET change == Head(tasks[t].batch)
         rest == [tasks[t] EXCEPT !.batch = Tail(@), !.change = change,
                                  !.existed = FileAt(disk, change.path).exists,
                                  !.content = FileAt(disk, change.path).content]
         skip == ~EndsWith(PathString(change.path), SKILL_MD)
         after == IF skip THEN NextChange(rest) ELSE NextCallback(rest, 0)
     IN /\ skills' = IF skip THEN skills ELSE HandleFileChange(skills, change, disk)
        /\ tasks' = [tasks EXCEPT ![t] = after]
        /\ cpu' = TaskAfter(t, after)
        /\ wlast' = Watched(IF skip THEN "skipped" ELSE "handled", rest, t, "")
  /\ ready' = ReadyRest
  /\ UNCHANGED <<disk, dirs, reload_callbacks, commands, watch_task, stop_event, events,
                 callers, fsops>>
  /\ UNCHANGED <<svars, cvars, lvars, gvars>>

\* await callback() for the next reload callback.  A "sync" callback calls
\* CommandManager.sync_from_skill_manager, a "raise" callback raises, which
\* the loop logs, and a "yield" callback suspends before it returns.
WatchCallback(t) ==
  /\ Runs(TaskId(t))
  /\ tasks[t].pc = "callback"
  /\ LET i == tasks[t].cbi
         kind == reload_callbacks[i]
         after == IF kind = "yield" THEN [tasks[t] EXCEPT !.pc = "suspended"]
                  ELSE NextCallback(tasks[t], i)
     IN /\ commands' = IF kind = "sync" THEN SyncFromSkillManager(commands, skills)
                      ELSE commands
        /\ tasks' = [tasks EXCEPT ![t] = after]
        /\ cpu' = TaskAfter(t, after)
        /\ wlast' = Watched("callback", tasks[t], t, kind)
  /\ ready' = ReadyRest
  /\ UNCHANGED <<disk, dirs, skills, reload_callbacks, watch_task, stop_event, events,
                 callers, fsops>>
  /\ UNCHANGED <<svars, cvars, lvars, gvars>>

\* Whether _handle_file_change for the change reloads the skill: the change
\* is not a deletion, the file exists and parses.
Reloads(change, d) ==
  /\ EndsWith(PathString(change.path), SKILL_MD)
  /\ ~PyEq(change.type, Str("deleted"))
  /\ FileAt(d, change.path).exists
  /\ ~ParseRaises(FileAt(d, change.path).content)

\* A reload that suspends between reading the file and storing the entry.
ReloadRead_Yields(t) ==
  /\ Runs(TaskId(t))
  /\ tasks[t].pc = "batch"
  /\ Reloads(Head(tasks[t].batch), disk)
  /\ LET change == Head(tasks[t].batch)
         rest == [tasks[t] EXCEPT !.batch = Tail(@), !.change = change,
                                  !.existed = TRUE,
                                  !.content = FileAt(disk, change.path).content,
                                  !.pc = "reloading"]
     IN /\ tasks' = [tasks EXCEPT ![t] = rest]
        /\ wlast' = Watched("read", rest, t, "")
  /\ cpu' = Idle
  /\ ready' = Append(ReadyRest, TaskId(t))
  /\ UNCHANGED <<disk, dirs, skills, reload_callbacks, commands, watch_task, stop_event,
                 events, callers, fsops>>
  /\ UNCHANGED <<svars, cvars, lvars, gvars>>

\* The first half of a reload in _handle_file_change, step by step: the
\* task takes the next change of its batch, reads the file and parses its
\* commands.  It does not suspend: it keeps the event loop.
ReloadRead(t) ==
  /\ Runs(TaskId(t))
  /\ tasks[t].pc = "batch"
  /\ Reloads(Head(tasks[t].batch), disk)
  /\ LET change == Head(tasks[t].batch)
         rest == [tasks[t] EXCEPT !.batch = Tail(@), !.change = change,
                                  !.existed = TRUE,
                                  !.content = FileAt(disk, change.path).content,
                                  !.pc = "reloading"]
     IN /\ tasks' = [tasks EXCEPT ![t] = rest]
        /\ wlast' = Watched("read", rest, t, "")
  /\ cpu' = TaskId(t)
  /\ ready' = ReadyRest
  /\ UNCHANGED <<disk, dirs, skills, reload_callbacks, commands, watch_task, stop_event,
                 events, callers, fsops>>
  /\ UNCHANGED <<svars, cvars, lvars, gvars>>

\* The second half: the SkillInfo built from what was read is assigned to
\* _skills[skill_name], and the loop goes on to the reload callbacks.
ReloadStore(t) ==
  /\ Runs(TaskId(t))
  /\ tasks[t].pc = "reloading"
  /\ LET path == tasks[t].change.path
         after == NextCallback(tasks[t], 0)
     IN /\ skills' = SkillsSet(skills, SkillInfo(path.dir, path,
                                                 IF path.root = "workspace" THEN "workspace"
                                                 ELSE "global",
                                                 tasks[t].content))
        /\ tasks' = [tasks EXCEPT ![t] = after]
        /\ cpu' = TaskAfter(t, after)
        /\ wlast' = Watched("handled", tasks[t], t, "")
  /\ ready' = ReadyRest
  /\ UNCHANGED <<disk, dirs, reload_callbacks, commands, watch_task, stop_event, events,
                 callers, fsops>>
  /\ UNCHANGED <<svars, cvars, lvars, gvars>>

\* The body of the loop for a change that is skipped, is a removal, or finds
\* no file to reload.
WatchOther(t) ==
  /\ tasks[t].pc = "batch"
  /\ ~Reloads(Head(tasks[t].batch), disk)
  /\ WatchChange(t)

\* What a suspended callback awaits completes: the task is made ready.
CallbackWake(t) ==
  /\ tasks[t].pc = "suspended"
  /\ tasks' = [tasks EXCEPT ![t].pc = "resumed"]
  /\ ready' = Append(ready, TaskId(t))
  /\ UNCHANGED <<disk, dirs, skills, reload_callbacks, commands, watch_task, stop_event,
                 events, callers, cpu, fsops, wlast>>
  /\ UNCHANGED <<svars, cvars, lvars, gvars>>

\* The suspended callback returns and the loop goes on.
WatchResume(t) ==
  /\ Runs(TaskId(t))
  /\ tasks[t].pc = "resumed"
  /\ LET after == NextCallback(tasks[t], tasks[t].cbi)
     IN /\ tasks' = [tasks EXCEPT ![t] = after]
        /\ cpu' = TaskAfter(t, after)
  /\ ready' = ReadyRest
  /\ wlast' = Watched("resumed", tasks[t], t, reload_callbacks[tasks[t].cbi])
  /\ UNCHANGED <<disk, dirs, skills, reload_callbacks, commands, watch_task, stop_event,
                 events, callers, fsops>>
  /\ UNCHANGED <<svars, cvars, lvars, gvars>>

\* The tasks after a change under root: each one that is in its awatch loop
\* over that root has the change reported to it.
Report(root, change) ==
  [t \in 1..Len(tasks) |->
     IF tasks[t].pc \in {"awatch", "batch", "callback", "suspended", "resumed"}
        /\ root \in tasks[t].watched
     THEN [tasks[t] EXCEPT !.pending = @ \cup {change}]
     ELSE tasks[t]]

\* The file system, outside the program: a SKILL.md is created or rewritten.
WriteSkill(p, content) ==
  /\ p.root \in dirs
  /\ disk[p] # SkillFile(content)
  /\ disk' = [disk EXCEPT ![p] = SkillFile(content)]
  /\ tasks' = Report(p.root, [type |-> Change(IF disk[p].exists THEN "modified" ELSE "added"),
                              path |-> p])
  /\ fsops' = fsops + 1
  /\ UNCHANGED <<dirs, skills, reload_callbacks, commands, watch_task, stop_event, events,
                 callers, ready, cpu, wlast>>
  /\ UNCHANGED <<svars, cvars, lvars, gvars>>

\* A SKILL.md is deleted.
DeleteSkill(p) ==
  /\ disk[p].exists
  /\ disk' = [disk EXCEPT ![p] = NoSkillFile]
  /\ tasks' = Report(p.root, [type |-> Change("deleted"), path |-> p])
  /\ fsops' = fsops + 1
  /\ UNCHANGED <<dirs, skills, reload_callbacks, commands, watch_task, stop_event, events,
                 callers, ready, cpu, wlast>>
  /\ UNCHANGED <<svars, cvars, lvars, gvars>>

\* Another file of a skill directory is written.
WriteOther(p) ==
  /\ p.root \in dirs
  /\ tasks' = Report(p.root, [type |-> Change("modified"), path |-> p])
  /\ tasks' # tasks
  /\ fsops' = fsops + 1
  /\ UNCHANGED <<disk, dirs, skills, reload_callbacks, commands, watch_task, stop_event,
                 events, callers, ready, cpu, wlast>>
  /\ UNCHANGED <<svars, cvars, lvars, gvars>>

\* ------------------------------------------------------------- ReloadSpec
\* One SkillManager with its CommandManager: the skill files change while
\* callers start and stop the watcher.
InitialDisks ==
  {NoDisk,
   [NoDisk EXCEPT ![SkillPath("workspace", "s1", SKILL_MD)] = SkillFile(Declares(<<"c1">>))],
   [NoDisk EXCEPT ![SkillPath("workspace", "s1", SKILL_MD)] = SkillFile(Declares(<<"c1">>)),
                  ![SkillPath("global", "s1", SKILL_MD)] = SkillFile(Plain)]}

ReloadPrograms == {<<"start">>, <<"stop">>}
CallbackKinds == {"sync", "raise", "yield"}

Tasks == 1..Len(tasks)
Callers == 1..Len(callers)

ReloadInit ==
  /\ \E d \in InitialDisks, order \in Orders(SkillDirs) : SkillsInit(d, Roots, order)
  /\ SessionsIdle

ReloadNext ==
  \/ \E kind \in CallbackKinds : Len(reload_callbacks) < MaxCallbacks /\ OnReload(kind)
  \/ \E prog \in ReloadPrograms : Len(callers) < ReloadCallers /\ Spawn(prog)
  \/ \E c \in Callers : StartWatching(c)
  \/ \E c \in Callers : StopWatching(c)
  \/ \E c \in Callers : StopWatchingResume(c)
  \/ \E t \in Tasks : WatchStart(t)
  \/ \E t \in Tasks : \E batch \in Orders(tasks[t].pending) : AwatchYield(t, batch)
  \/ \E t \in Tasks : AwatchStop(t)
  \/ \E t \in Tasks : WatchExit(t)
  \/ \E t \in Tasks : WatchChange(t)
  \/ \E t \in Tasks : WatchCallback(t)
  \/ \E t \in Tasks : CallbackWake(t)
  \/ \E t \in Tasks : WatchResume(t)
  \/ \E p \in SkillFiles, content \in Contents : fsops < MaxFsOps /\ WriteSkill(p, content)
  \/ \E p \in SkillFiles : fsops < MaxFsOps /\ DeleteSkill(p)
  \/ \E p \in OtherFiles : fsops < MaxFsOps /\ WriteOther(p)

ReloadSpec == ReloadInit /\ [][ReloadNext]_vars

\* ------------------------------------------------------------- WatchSpec
\* Coroutines that start, stop and restart the watcher of one SkillManager
\* concurrently; the skill files do not change.
WatchPrograms == {<<"start">>, <<"stop">>, <<"stop", "start">>}

WatchInit ==
  /\ \E present \in {{}, Roots} : SkillsInit(NoDisk, present, <<>>)
  /\ SessionsIdle

WatchNext ==
  \/ \E prog \in WatchPrograms : Len(callers) < WatchCallers /\ Spawn(prog)
  \/ \E c \in Callers : StartWatching(c)
  \/ \E c \in Callers : StopWatching(c)
  \/ \E c \in Callers : StopWatchingResume(c)
  \/ \E t \in Tasks : WatchStart(t)
  \/ \E t \in Tasks : AwatchStop(t)
  \/ \E t \in Tasks : WatchExit(t)

WatchSpec == WatchInit /\ [][WatchNext]_vars

\* ------------------------------------------------------------- FrontmatterSpec
\* One SkillManager constructed over a workspace skill of any content, well
\* formed or not, and its watcher while workspace skills are written.
AllContents == Contents \cup MalformedContents

FrontmatterFiles ==
  {SkillPath("workspace", "s1", SKILL_MD), SkillPath("workspace", "s2", SKILL_MD)}

FrontmatterDisks ==
  {NoDisk} \cup
  {[NoDisk EXCEPT ![SkillPath("workspace", "s1", SKILL_MD)] = SkillFile(content)] :
     content \in AllContents}

FrontmatterInit ==
  /\ \E d \in FrontmatterDisks, order \in Orders(SkillDirs) : SkillsInit(d, Roots, order)
  /\ SessionsIdle

FrontmatterNext ==
  \/ Len(callers) < 1 /\ Spawn(<<"start">>)
  \/ \E c \in Callers : StartWatching(c)
  \/ \E t \in Tasks : WatchStart(t)
  \/ \E t \in Tasks : \E batch \in Orders(tasks[t].pending) : AwatchYield(t, batch)
  \/ \E t \in Tasks : WatchChange(t)
  \/ \E p \in FrontmatterFiles, content \in AllContents :
       fsops < FrontmatterFsOps /\ WriteSkill(p, content)

FrontmatterSpec == FrontmatterInit /\ [][FrontmatterNext]_vars

\* ------------------------------------------------------------- CallbackSpec
\* A watcher with its reload callbacks and a CommandManager with its update
\* callbacks, some of which raise, while workspace skills are written.
UpdateKinds == {"ok", "raise"}

CallbackInit ==
  /\ SkillsInit(NoDisk, Roots, <<>>)
  /\ SessionsIdle

CallbackNext ==
  \/ \E kind \in CallbackKinds : Len(reload_callbacks) < ReloadCallbacks /\ OnReload(kind)
  \/ \E kind \in UpdateKinds : Len(update_callbacks) < UpdateCallbacks /\ OnUpdate(kind)
  \/ NotifyUpdate
  \/ Len(callers) < 1 /\ Spawn(<<"start">>)
  \/ \E c \in Callers : StartWatching(c)
  \/ \E t \in Tasks : WatchStart(t)
  \/ \E t \in Tasks : \E batch \in Orders(tasks[t].pending) : AwatchYield(t, batch)
  \/ \E t \in Tasks : WatchChange(t)
  \/ \E t \in Tasks : WatchCallback(t)
  \/ \E t \in Tasks : CallbackWake(t)
  \/ \E t \in Tasks : WatchResume(t)
  \/ \E p \in FrontmatterFiles :
       fsops < CallbackFsOps /\ WriteSkill(p, Declares(<<"c1">>))

CallbackSpec == CallbackInit /\ [][CallbackNext]_vars

\* ------------------------------------------------------------- SyncSpec
\* A CommandManager synced from a SkillManager whose skills are reloaded and
\* unloaded, with commands registered directly in between.
SyncNext ==
  \/ \E name \in {"c1", "x"} : Register(name, "manual")
  \/ Sync
  \/ \E change_type \in {"modified", "deleted"}, p \in FrontmatterFiles :
       HandleDirect(change_type, p)
  \/ \E p \in FrontmatterFiles, content \in Contents :
       fsops < SyncFsOps /\ WriteSkill(p, content)
  \/ \E p \in FrontmatterFiles : fsops < SyncFsOps /\ DeleteSkill(p)

SyncSpec == ReloadInit /\ [][SyncNext]_vars

\* ------------------------------------------------------------- LoadSpec
\* The construction of a SkillManager over skill directories of which any
\* may exist and hold any SKILL.md: __init__ with _skills still empty, then
\* _load_all_skills.
LoadContents == {Plain, Declares(<<"c1">>), NotMapping}

LoadDisks == [SkillFiles -> {NoSkillFile} \cup {SkillFile(content) : content \in LoadContents}]

\* No watcher, no callback, no command, no call yet.
ComponentsIdle ==
  /\ reload_callbacks = <<>>
  /\ commands = <<>>
  /\ watch_task = 0
  /\ stop_event = 0
  /\ events = <<>>
  /\ tasks = <<>>
  /\ callers = <<>>
  /\ ready = <<>>
  /\ cpu = Idle
  /\ fsops = 0
  /\ wlast = Watched("init", NewTask, 0, "")
  /\ update_callbacks = <<>>
  /\ notified = NotifyFrom(<<>>, 1)
  /\ synced = NotSynced
  /\ lres = NoCalls
  /\ GatewayIdle

LoadInit ==
  /\ disk \in LoadDisks
  /\ dirs \in SUBSET Roots
  /\ skills = <<>>
  /\ osenv = NoEnv
  /\ ComponentsIdle
  /\ SessionsIdle

\* SkillManager._load_all_skills(), called by __init__; iterdir gives the
\* skill directories of each root in the order given.
LoadAll(order) ==
  /\ wlast.op = "init"
  /\ skills' = LoadAllSkills(disk, dirs, order)
  /\ wlast' = Watched("loaded", NewTask, 0, "")
  /\ UNCHANGED <<disk, dirs, reload_callbacks, commands, watch_task, stop_event, events,
                 tasks, callers, ready, cpu, fsops>>
  /\ UNCHANGED <<svars, cvars, lvars, gvars>>

LoadNext == \E order \in Orders(SkillDirs) : LoadAll(order)

LoadSpec == LoadInit /\ [][LoadNext]_vars

\* ------------------------------------------------------------- LoaderSpec
\* A SkillsLoader over a workspace and a builtin directory whose skills
\* declare requirements, in an environment that meets some of them.
LoaderBins == {"gh"}
LoaderVars == {"TOKEN"}

LoaderContents ==
  {Plain, Requiring(<<"gh">>, <<>>), Requiring(<<>>, <<"TOKEN">>),
   Requiring(<<"gh">>, <<"TOKEN">>)}

LoaderFiles ==
  {SkillPath("workspace", "s1", SKILL_MD), SkillPath("workspace", "s2", SKILL_MD),
   SkillPath("builtin", "s1", SKILL_MD)}

LoaderDisks ==
  {d \in [SkillFiles -> {NoSkillFile} \cup {SkillFile(content) : content \in LoaderContents}] :
     \A p \in SkillFiles \ LoaderFiles : d[p] = NoSkillFile}

Environments ==
  {[path |-> found, environ |-> environ] :
     found \in SUBSET LoaderBins,
     environ \in UNION {[names -> {"", "v"}] : names \in SUBSET LoaderVars}}

LoaderInit ==
  /\ disk \in LoaderDisks
  /\ dirs \in SUBSET {"workspace", "builtin"}
  /\ skills = <<>>
  /\ osenv \in Environments
  /\ ComponentsIdle
  /\ SessionsIdle

LoaderNext ==
  \/ \E filter_unavailable \in BOOLEAN, ws_order \in Orders(SkillDirs),
        builtin_order \in Orders(SkillDirs) :
       ListSkills(filter_unavailable, ws_order, builtin_order)
  \/ \E name \in SkillDirs : LoadSkillCall(name)
  \/ \E ws_order \in Orders(SkillDirs), builtin_order \in Orders(SkillDirs) :
       BuildSummary(ws_order, builtin_order)

LoaderSpec == LoaderInit /\ [][LoaderNext]_vars

\* ------------------------------------------------------------- EscapeSpec
\* A SkillsLoader over workspace skills whose directory names, descriptions
\* and required executables hold the characters "&", "<" and ">".
Describing(description, bins) ==
  [front |-> "mapping", cmdtype |-> "records", commands |-> <<>>,
   description |-> description, requires |-> [bins |-> bins, env |-> <<>>]]

EscapeDirs == {"a&b", "s1"}
EscapeBins == {"x<y>"}

EscapeContents ==
  {Plain, Describing(<<"&", "lt;">>, <<>>), Describing(<<"<", "b", ">">>, <<"x<y>">>),
   Describing(<<>>, <<"x<y>", "gh">>)}

EscapeDisks ==
  [{SkillPath("workspace", dir, SKILL_MD) : dir \in EscapeDirs} ->
     {NoSkillFile} \cup {SkillFile(content) : content \in EscapeContents}]

EscapeInit ==
  /\ disk \in EscapeDisks
  /\ dirs = {"workspace"}
  /\ skills = <<>>
  /\ osenv \in {[path |-> found, environ |-> <<>>] : found \in SUBSET EscapeBins}
  /\ ComponentsIdle
  /\ SessionsIdle

EscapeNext ==
  \/ \E filter_unavailable \in BOOLEAN, ws_order \in Orders(EscapeDirs) :
       ListSkills(filter_unavailable, ws_order, <<>>)
  \/ \E name \in EscapeDirs : LoadSkillCall(name)
  \/ \E ws_order \in Orders(EscapeDirs) : BuildSummary(ws_order, <<>>)

EscapeSpec == EscapeInit /\ [][EscapeNext]_vars

\* ------------------------------------------------------------- ShutdownSpec
\* Coroutines that start, stop and restart the watcher of one SkillManager
\* concurrently while a workspace skill is written, with a sync callback.
ShutdownFiles ==
  {SkillPath("workspace", "s1", SKILL_MD), SkillPath("workspace", "s2", SKILL_MD)}

ShutdownInit ==
  /\ SkillsInit(NoDisk, Roots, <<>>)
  /\ SessionsIdle

ShutdownNext ==
  \/ Len(reload_callbacks) < ShutdownCallbacks /\ OnReload("sync")
  \/ \E prog \in WatchPrograms : Len(callers) < ShutdownCallers /\ Spawn(prog)
  \/ \E c \in Callers : StartWatching(c)
  \/ \E c \in Callers : StopWatching(c)
  \/ \E c \in Callers : StopWatchingResume(c)
  \/ \E t \in Tasks : WatchStart(t)
  \/ \E t \in Tasks : \E batch \in Orders(tasks[t].pending) : AwatchYield(t, batch)
  \/ \E t \in Tasks : AwatchStop(t)
  \/ \E t \in Tasks : WatchExit(t)
  \/ \E t \in Tasks : WatchChange(t)
  \/ \E t \in Tasks : WatchCallback(t)
  \/ \E p \in ShutdownFiles : fsops < ShutdownFsOps /\ WriteSkill(p, Declares(<<"c1">>))

ShutdownSpec == ShutdownInit /\ [][ShutdownNext]_vars

\* ------------------------------------------------------------- NameSpec
\* A watcher with a sync callback over a workspace skill directory in which
\* SKILL.md, MY_SKILL.md and notes.md are written and deleted.
NameFiles ==
  {SkillPath("workspace", "s1", SKILL_MD), SkillPath("workspace", "s1", MY_SKILL_MD)}

NameDisk == [p \in NameFiles |-> NoSkillFile]

NameInit ==
  /\ SkillsInit(NameDisk, Roots, <<"s1">>)
  /\ SessionsIdle

NameNext ==
  \/ Len(reload_callbacks) < 1 /\ OnReload("sync")
  \/ Len(callers) < 1 /\ Spawn(<<"start">>)
  \/ \E c \in Callers : StartWatching(c)
  \/ \E t \in Tasks : WatchStart(t)
  \/ \E t \in Tasks : \E batch \in Orders(tasks[t].pending) : AwatchYield(t, batch)
  \/ \E t \in Tasks : WatchChange(t)
  \/ \E t \in Tasks : WatchCallback(t)
  \/ \E p \in NameFiles, content \in Contents : fsops < NameFsOps /\ WriteSkill(p, content)
  \/ \E p \in NameFiles : fsops < NameFsOps /\ DeleteSkill(p)
  \/ \E p \in OtherFiles : fsops < NameFsOps /\ WriteOther(p)

NameSpec == NameInit /\ [][NameNext]_vars

\* ------------------------------------------------------------- RegistrySpec
\* A CommandManager on which commands are registered and unregistered by
\* name, under several owners, between syncs from the SkillManager.
RegistryNames == {"c1", "c2", "x"}
RegistryOwners == {"s2", "manual"}

RegistryNext ==
  \/ \E name \in RegistryNames, skill_name \in RegistryOwners : Register(name, skill_name)
  \/ \E name \in RegistryNames : Unregister(name)
  \/ Sync

RegistrySpec == ReloadInit /\ [][RegistryNext]_vars

\* ------------------------------------------------------------- NotifySpec
\* A CommandManager with update callbacks registered, synced from a
\* SkillManager whose skills change, and notified by its owner.
NotifyNext ==
  \/ \E kind \in UpdateKinds : Len(update_callbacks) < UpdateCallbacks /\ OnUpdate(kind)
  \/ NotifyUpdate
  \/ Sync
  \/ \E change_type \in {"modified", "deleted"}, p \in FrontmatterFiles :
       HandleDirect(change_type, p)
  \/ \E p \in FrontmatterFiles, content \in Contents :
       fsops < SyncFsOps /\ WriteSkill(p, content)

NotifySpec == ReloadInit /\ [][NotifyNext]_vars

\* ------------------------------------------------------------- SnapshotSpec
\* The watcher with sync callbacks and callbacks that suspend, next to an
\* agent loop that syncs the CommandManager by itself, while workspace
\* skills are written and deleted.  A reload is taken in its two halves.
SnapshotNext ==
  \/ \E kind \in {"sync", "yield"} :
       Len(reload_callbacks) < SnapshotCallbacks /\ OnReload(kind)
  \/ Len(callers) < 1 /\ Spawn(<<"start">>)
  \/ \E c \in Callers : StartWatching(c)
  \/ \E t \in Tasks : WatchStart(t)
  \/ \E t \in Tasks : \E batch \in Orders(tasks[t].pending) : AwatchYield(t, batch)
  \/ \E t \in Tasks : ReloadRead(t)
  \/ \E t \in Tasks : ReloadStore(t)
  \/ \E t \in Tasks : WatchOther(t)
  \/ \E t \in Tasks : WatchCallback(t)
  \/ \E t \in Tasks : CallbackWake(t)
  \/ \E t \in Tasks : WatchResume(t)
  \/ Sync
  \/ \E p \in FrontmatterFiles, content \in Contents :
       fsops < SnapshotFsOps /\ WriteSkill(p, content)
  \/ \E p \in FrontmatterFiles : fsops < SnapshotFsOps /\ DeleteSkill(p)

SnapshotSpec == ReloadInit /\ [][SnapshotNext]_vars

\* ------------------------------------------------------------- RefineSpec
\* One SkillManager constructed over skill directories of any content, its
\* watcher started once and never stopped; workspace and global SKILL.md
\* files are created, rewritten and deleted while it watches.
RefineContents == {Plain, Declares(<<"c1">>)}

RefineDisks == [SkillFiles -> {NoSkillFile} \cup {SkillFile(content) : content \in RefineContents}]

WatchedFiles == {p \in SkillFiles : p.root \in WatchedRoots}

\* The registered watch task is in its awatch loop over both watched roots.
Watching ==
  /\ watch_task # 0
  /\ tasks[watch_task].pc \in {"awatch", "batch"}
  /\ tasks[watch_task].watched = WatchedRoots

RefineInit ==
  /\ \E d \in RefineDisks, order \in Orders(SkillDirs) : SkillsInit(d, Roots, order)
  /\ SessionsIdle

RefineNext ==
  \/ Len(callers) < 1 /\ Spawn(<<"start">>)
  \/ \E c \in Callers : StartWatching(c)
  \/ \E t \in Tasks : WatchStart(t)
  \/ \E t \in Tasks : \E batch \in Orders(tasks[t].pending) : AwatchYield(t, batch)
  \/ \E t \in Tasks : WatchChange(t)
  \/ \E p \in WatchedFiles, content \in RefineContents :
       Watching /\ fsops < RefineFsOps /\ WriteSkill(p, content)
  \/ \E p \in WatchedFiles : Watching /\ fsops < RefineFsOps /\ DeleteSkill(p)

RefineSpec == RefineInit /\ [][RefineNext]_vars

\* ------------------------------------------------------------- LoopEndSpec
\* Coroutines that start, stop and restart the watcher of one SkillManager
\* whose watch loop can end by itself: started with no watch directory, or
\* its awatch raising.
LoopEndNext ==
  \/ \E prog \in WatchPrograms : Len(callers) < WatchCallers /\ Spawn(prog)
  \/ \E c \in Callers : StartWatching(c)
  \/ \E c \in Callers : StopWatching(c)
  \/ \E c \in Callers : StopWatchingResume(c)
  \/ \E t \in Tasks : WatchStart(t)
  \/ \E t \in Tasks : AwatchStop(t)
  \/ \E t \in Tasks : AwatchRaises(t)
  \/ \E t \in Tasks : WatchExit(t)

LoopEndSpec == WatchInit /\ [][LoopEndNext]_vars

\* ------------------------------------------------------------- StopSpec
\* Coroutines that start and stop the watcher of one SkillManager, one of
\* them stopping, restarting and stopping again, while a workspace skill is
\* written and a reload callback suspends and returns.  The event loop is
\* fair: a coroutine that is ready runs, a callback that suspended returns,
\* and awatch ends once the stop event it was given is set.
StopPrograms == {<<"start">>, <<"stop">>, <<"stop", "start", "stop">>}

StopNext ==
  \/ Len(reload_callbacks) < StopCallbacks /\ OnReload("yield")
  \/ \E prog \in StopPrograms : Len(callers) < StopCallers /\ Spawn(prog)
  \/ \E c \in Callers : StartWatching(c)
  \/ \E c \in Callers : StopWatching(c)
  \/ \E c \in Callers : StopWatchingResume(c)
  \/ \E t \in Tasks : WatchStart(t)
  \/ \E t \in Tasks : \E batch \in Orders(tasks[t].pending) : AwatchYield(t, batch)
  \/ \E t \in Tasks : AwatchStop(t)
  \/ \E t \in Tasks : WatchExit(t)
  \/ \E t \in Tasks : WatchChange(t)
  \/ \E t \in Tasks : WatchCallback(t)
  \/ \E t \in Tasks : CallbackWake(t)
  \/ \E t \in Tasks : WatchResume(t)
  \/ fsops < StopFsOps /\ WriteSkill(SkillPath("workspace", "s1", SKILL_MD), Plain)

\* A step of the coroutine the event loop runs next.
RunsReady ==
  \/ \E c \in Callers : StartWatching(c) \/ StopWatching(c) \/ StopWatchingResume(c)
  \/ \E t \in Tasks :
       WatchStart(t) \/ WatchExit(t) \/ WatchChange(t) \/ WatchCallback(t) \/ WatchResume(t)

StopFairness ==
  /\ WF_vars(RunsReady)
  /\ WF_vars(\E t \in Tasks : AwatchStop(t))
  /\ WF_vars(\E t \in Tasks : CallbackWake(t))

StopSpec == ShutdownInit /\ [][StopNext]_vars /\ StopFairness

\* ------------------------------------------------------------- GatewaySpec
\* Invocations of the gateway commands on one data directory, a start
\* sleeping while the others run, and the processes of the machine
\* starting and exiting.
GatewayInit ==
  /\ SkillsIdle
  /\ SessionsIdle

GatewayNext ==
  \/ IsGatewayRunning
  \/ \E i \in 1..GatewayStarters : StartGateway(i)
  \/ \E i \in 1..GatewayStarters : StartGatewayWake(i)
  \/ \E exits \in BOOLEAN : StopGateway(exits)
  \/ \E p \in 1..GatewayPids : ProcessExit(p)
  \/ \E p \in 1..GatewayPids : ForeignStart(p)

GatewaySpec == GatewayInit /\ [][GatewayNext]_vars

\* ------------------------------------------------------------- properties
\* The slice get_history selects before it aligns: at most max_messages
\* entries from the end of messages[last_consolidated:].
SelectedTail(s, max_messages) ==
  PyLast(PySliceFrom(s.messages, s.last_consolidated), max_messages)

HasUser(seq) == \E i \in 1..Len(seq) : seq[i].role = "user"

\* C1: turn alignment.  Whenever get_history has returned, the result is
\* empty if the selected unconsolidated tail holds no user-role message, and
\* a non-empty result starts with a user-role message.
C1_TurnAlignment ==
  last.op = "get_history" =>
    /\ ~HasUser(SelectedTail(heap[last.obj], last.arg)) => last.result = <<>>
    /\ last.result # <<>> => last.result[1].role = "user"

\* The message of a session that entry i of a history of n entries was built
\* from: get_history returns the end of the message list.
SourceOf(s, n, i) == s.messages[Len(s.messages) - n + i]

\* C2: the list get_history returns never contains a message that has
\* already been consolidated.  Stated for max_session_messages >= 1, where a
\* truncating save keeps the newest messages only.
C2_NoConsolidatedInHistory ==
  (last.op = "get_history" /\ max_session_messages >= 1) =>
    \A i \in 1..Len(last.result) :
      SourceOf(heap[last.obj], Len(last.result), i).timestamp \notin consolidated

C4_RoundTrip ==
  (rt.stage = "reloaded" /\ Len(rt.messages) <= max_session_messages) =>
    /\ heap[last.obj].messages = rt.messages
    /\ heap[last.obj].metadata = rt.metadata

C4_Witness ==
  /\ rt.stage = "reloaded"
  /\ Len(rt.messages) = 1
  /\ max_session_messages = 1
  /\ rt.metadata # EmptyMeta
  /\ last.loaded

\* The most recent n of a list of messages.
MostRecent(messages, n) == SubSeq(messages, Len(messages) - n + 1, Len(messages))

\* The message lines of a session file: all but the metadata line.
FileMessages(file) == Tail(file.lines)

\* C5: a save of a session holding more than max_session_messages messages
\* persists exactly the most recent max_session_messages of them and resets
\* last_consolidated to 0; a save of a session with at most
\* max_session_messages messages changes neither its messages nor its
\* last_consolidated.
C5_Truncation ==
  [][last'.op = "save" =>
       LET before == heap[last'.obj]
           after == heap'[last'.obj]
           file == files'[SessionPath(before.key)]
       IN IF Len(before.messages) > max_session_messages
          THEN /\ FileMessages(file) = MostRecent(before.messages, max_session_messages)
               /\ Len(FileMessages(file)) <= max_session_messages
               /\ after.last_consolidated = 0
               /\ Head(file.lines).last_consolidated = 0
          ELSE /\ after.messages = before.messages
               /\ after.last_consolidated = before.last_consolidated
               /\ FileMessages(file) = before.messages]_vars

\* The least recently used of a set of keys: the one earliest in the
\* recency order r.
LeastRecent(r, keys) ==
  r[CHOOSE i \in 1..Len(r) : r[i] \in keys /\ \A j \in 1..(i - 1) : r[j] \notin keys]

\* C6: a get_or_create miss that makes the cache exceed max_cache_size
\* removes exactly one entry, the least recently used one of the cache with
\* the requested key inserted, where a key is used by every get_or_create of
\* it; a hit and a miss within capacity remove nothing; and no get_or_create
\* changes a session file (the legacy directory is empty here), so the
\* evicted key's file is as it was.
C6_LRUEviction ==
  [][last'.op = "get_or_create" =>
       LET inserted == CacheKeys(cache) \cup {last'.key}
       IN /\ files' = files
          /\ IF ~last'.hit /\ Len(cache) + 1 > max_cache_size
             THEN /\ last'.evicted = LeastRecent(recent', inserted)
                  /\ CacheKeys(cache') = inserted \ {last'.evicted}
                  /\ Len(cache') = Len(cache)
             ELSE /\ last'.evicted = NoKey
                  /\ CacheKeys(cache') = inserted]_vars

\* With capacity 2: a:b, a_b, a:b again, then c, which evicts a_b; a:b keeps
\* its first instance.
C6_Witness ==
  /\ max_cache_size = 2
  /\ last.op = "get_or_create" /\ last.key = KeyC /\ last.evicted = KeyA_B
  /\ recent = <<KeyA_B, KeyAB, KeyC>>
  /\ Len(heap) = 3 /\ heap[1].key = KeyAB /\ heap[2].key = KeyA_B
  /\ cache = <<[key |-> KeyAB, obj |-> 1], [key |-> KeyC, obj |-> 3]>>

\* The statement of C7 as written: a get_or_create(k) that follows a
\* get_or_create(k) with no eviction or invalidate of k between them returns
\* the same instance and loads nothing.
C7_Idempotence ==
  [][(last'.op = "get_or_create" /\ lastGot[last'.key] # 0) =>
       /\ last'.obj = lastGot[last'.key]
       /\ last'.hit /\ ~last'.loaded]_vars

\* C7: a get_or_create(k) that follows a get_or_create(k) with, between
\* them, no eviction or invalidate of k and no save that put a different
\* Session instance in k's cache entry, returns the same instance and loads
\* nothing from disk.
C7_IdempotenceUnlessReplaced ==
  [][(last'.op = "get_or_create" /\ lastGot[last'.key] # 0 /\ ~displaced[last'.key]) =>
       /\ last'.obj = lastGot[last'.key]
       /\ last'.hit /\ ~last'.loaded
       /\ files' = files]_vars

\* A hit on the only instance ever made, after that instance was saved: the
\* earlier get_or_create of the key made it, this one returned it.
C7_Witness ==
  /\ last.op = "get_or_create" /\ last.hit /\ ~last.loaded
  /\ Len(heap) = 1 /\ last.obj = 1
  /\ files[SessionPath(last.key)].exists

\* The changes awatch reports for a file that was deleted, and for one that
\* was created or rewritten.
IsDeletion(change) == change.type = Change("deleted")
IsWrite(change) == change.type \in {Change("added"), Change("modified")}

CommandOwners(cm) == {cm[i].skill_name : i \in 1..Len(cm)}

\* C8: once the watcher has handled a deletion event for a skill's SKILL.md,
\* the skill is no longer in the skill map, and once the sync callback called
\* for that event has run, CommandManager holds no command of the skill.
C8_DeleteUnloads ==
  /\ (wlast.op \in {"handled", "callback", "resumed"} /\ IsDeletion(wlast.change)) =>
       wlast.change.path.dir \notin SkillNames(skills)
  /\ (wlast.op = "callback" /\ wlast.cb = "sync" /\ IsDeletion(wlast.change)) =>
       wlast.change.path.dir \notin CommandOwners(commands)

Running == {t \in Tasks : tasks[t].pc \notin {"new", "done"}}

\* C10: at most one watch task is running at any time, whatever the
\* interleaving of the coroutines calling start_watching and stop_watching.
C10_AtMostOneWatchTask == Cardinality(Running) <= 1

\* A registered watch task always has its stop event, so the
\* self._stop_event.set() of stop_watching never meets None.
RegisteredHasEvent == watch_task # 0 => stop_event # 0

\* The watch task t takes the next change of its batch and calls
\* _handle_file_change for it.
HandlesChange(t) ==
  /\ tasks[t].pc = "batch"
  /\ Len(tasks'[t].batch) < Len(tasks[t].batch)
  /\ wlast'.op = "handled"

\* The watch task t calls its next reload callback.
InvokesCallback(t) ==
  /\ tasks[t].pc = "callback"
  /\ (tasks'[t].pc # "callback" \/ tasks'[t].cbi # tasks[t].cbi)

\* C11: once a stop_watching call that found a registered watch task has
\* returned, and until start_watching is called again, the watcher neither
\* changes the skill map nor invokes a reload callback.  Such a return is
\* what clears _watch_task, and a start_watching call that finds it cleared
\* registers a task, so "a stop has returned and no start was called since"
\* is the state with tasks created and none registered.
C11_StoppedMeansQuiet ==
  [][(watch_task = 0 /\ Len(tasks) > 0) =>
       (skills' = skills /\ \A t \in Tasks : ~InvokesCallback(t))]_vars

\* C12: the watch task handles no change and invokes no reload callback
\* once the stop event its awatch was given is set.
C12_NoChangeAfterStop ==
  [][\A t \in Tasks :
       (tasks[t].ev # 0 /\ events[tasks[t].ev]) =>
         (~HandlesChange(t) /\ ~InvokesCallback(t))]_vars

\* A content with a well-formed commands list: a frontmatter mapping whose
\* commands value is a list of records.
WellFormed(content) == content.front = "mapping" /\ content.cmdtype = "records"

\* The skill map holds the skill name with the content given, and with no
\* command unless the content has a well-formed commands list.
Stored(name, content) ==
  /\ name \in SkillNames(skills)
  /\ skills[SkillIndex(skills, name)].content = content
  /\ ~WellFormed(content) => skills[SkillIndex(skills, name)].commands = <<>>

\* C13: whatever a SKILL.md holds, the initial scan stores its skill, and
\* the hot reload of a written SKILL.md that exists stores it, with no
\* command unless the content has a well-formed commands list.
C13_MalformedStillLoads ==
  /\ (wlast.op = "init" /\ fsops = 0) =>
       \A p \in FrontmatterFiles :
         (disk[p].exists /\ p.root \in dirs) => Stored(p.dir, disk[p].content)
  /\ (wlast.op = "handled" /\ IsWrite(wlast.change) /\ wlast.existed) =>
       Stored(wlast.change.path.dir, wlast.content)

\* C14: get_or_create over a file that exists and cannot be parsed returns,
\* without raising, a Session of the key with no message, no metadata and
\* last_consolidated 0; and a save whose write fails raises to its caller,
\* leaving the cache as it was.
C14_FailurePolicy ==
  /\ (/\ last.op = "get_or_create" /\ last.loaded
      /\ files[SessionPath(last.key)].exists
      /\ LoadRaises(files[SessionPath(last.key)].lines)) =>
       (~last.raised /\ heap[last.obj] = EmptySession(last.key))
  /\ last.op = "save_failed" => last.raised

\* A file holding a message and then a damaged line was loaded as an empty
\* Session.
C14_Witness ==
  /\ last.op = "get_or_create" /\ last.loaded /\ ~last.raised
  /\ files[SessionPath(last.key)].exists
  /\ Len(files[SessionPath(last.key)].lines) >= 3
  /\ ~LoadRaises(SubSeq(files[SessionPath(last.key)].lines, 1, 2))
  /\ LoadRaises(files[SessionPath(last.key)].lines)
  /\ heap[last.obj] = EmptySession(last.key)

\* The changes of a batch the loop has yet to handle: those of SKILL.md files.
Unhandled(batch) ==
  {i \in 1..Len(batch) : EndsWith(PathString(batch[i].path), SKILL_MD)}

\* C15: the reload callbacks are invoked once every change of the batch has
\* been applied to the skill map: when the watch task invokes a callback, no
\* SKILL.md change of the batch it is processing remains to be handled.
C15_CallbacksAfterBatch ==
  [][\A t \in Tasks : InvokesCallback(t) => Unhandled(tasks[t].batch) = {}]_vars

\* The watch task t invokes a reload callback that raises.
CallbackRaises(t) ==
  InvokesCallback(t) /\ reload_callbacks[tasks[t].cbi] = "raise"

\* C16: when a reload callback raises, the watch task goes on to the next
\* registered callback of the round, and after the last one to the next
\* change of the batch or back into awatch for later batches; and
\* notify_update awaits every update callback, in order, whichever of them
\* raise, and does not raise.
C16_CallbackIsolation ==
  [][/\ \A t \in Tasks :
          CallbackRaises(t) =>
            IF tasks[t].cbi < Len(reload_callbacks)
            THEN tasks'[t].pc = "callback" /\ tasks'[t].cbi = tasks[t].cbi + 1
            ELSE tasks'[t].pc \in {"batch", "awatch"}
     /\ notified' # notified =>
          /\ notified'.calls = [i \in 1..Len(update_callbacks) |-> i]
          /\ ~notified'.raised]_vars

\* notify_update has run over three callbacks of which the second raises,
\* and the watch task has invoked the sync callback registered after one
\* that raised.
C16_Witness ==
  /\ update_callbacks = <<"ok", "raise", "ok">>
  /\ notified.calls = <<1, 2, 3>>
  /\ reload_callbacks = <<"raise", "sync">>
  /\ wlast.op = "callback" /\ wlast.cb = "sync"

\* The command names the skills of the skill map sk declare.
DeclaredNames(sk) ==
  UNION {{sk[i].commands[j].name : j \in 1..Len(sk[i].commands)} : i \in 1..Len(sk)}

Having(name) ==
  {root \in dirs : FileAt(disk, SkillPath(root, name, SKILL_MD)).exists}

\* The root scanned last among those of a non-empty set.
LastScanned(roots) ==
  IF "builtin" \in roots THEN "builtin"
  ELSE IF "workspace" \in roots THEN "workspace" ELSE "global"

\* C18: after the initial load, a skill name that some existing root holds a
\* SKILL.md for has exactly one entry in the skill map, whose source, path
\* and content are those of the root scanned last among the roots holding
\* it (builtin, else workspace, else global); a name no root holds has none.
C18_LastScannedWins ==
  wlast.op = "loaded" =>
    \A name \in SkillDirs :
      IF Having(name) = {} THEN name \notin SkillNames(skills)
      ELSE LET root == LastScanned(Having(name))
               p == SkillPath(root, name, SKILL_MD)
           IN /\ Cardinality({i \in 1..Len(skills) : skills[i].name = name}) = 1
              /\ skills[SkillIndex(skills, name)].source = root
              /\ skills[SkillIndex(skills, name)].path = p
              /\ skills[SkillIndex(skills, name)].content = disk[p].content

\* The names of the entries of a list_skills result.
EntryNames(entries) == {entries[i].name : i \in 1..Len(entries)}

\* The requirements the file at p declares, and whether the environment
\* meets them: every executable on the path, every variable set and not "".
DeclaredAt(p) == Get(FileAt(disk, p).content, "requires", NoRequires)

MetAt(p) ==
  /\ \A i \in 1..Len(DeclaredAt(p).bins) : DeclaredAt(p).bins[i] \in osenv.path
  /\ \A i \in 1..Len(DeclaredAt(p).env) :
       /\ DeclaredAt(p).env[i] \in DOMAIN osenv.environ
       /\ osenv.environ[DeclaredAt(p).env[i]] # ""

\* The file a skill name stands for: the workspace one when there is one.
Resolved(name) ==
  IF Exists(disk, dirs, SkillPath("workspace", name, SKILL_MD))
  THEN SkillPath("workspace", name, SKILL_MD)
  ELSE SkillPath("builtin", name, SKILL_MD)

\* Both the workspace and the builtin directory hold the skill name.
InBoth(name) ==
  /\ Exists(disk, dirs, SkillPath("workspace", name, SKILL_MD))
  /\ Exists(disk, dirs, SkillPath("builtin", name, SKILL_MD))

\* C19: list_skills returns no name twice; a name that both the workspace
\* and the builtin directory hold is listed with the workspace source and
\* path; load_skill of the name gives the workspace file; and the filtered
\* list keeps the name exactly when the requirements the workspace file
\* declares are met.
C19_WorkspaceFirst ==
  /\ \A entries \in {lres.all, lres.available} :
       /\ \A i, j \in 1..Len(entries) : entries[i].name = entries[j].name => i = j
       /\ \A i \in 1..Len(entries) :
            InBoth(entries[i].name) =>
              /\ entries[i].source = "workspace"
              /\ entries[i].path = SkillPath("workspace", entries[i].name, SKILL_MD)
  /\ \A name \in SkillDirs :
       InBoth(name) =>
         /\ lres.listed_all => name \in EntryNames(lres.all)
         /\ lres.listed_available =>
              (name \in EntryNames(lres.available)
                 <=> MetAt(SkillPath("workspace", name, SKILL_MD)))
         /\ \A call \in lres.loaded :
              call.name = name =>
                /\ call.result.found
                /\ call.result.path = SkillPath("workspace", name, SKILL_MD)
                /\ call.result.content = disk[SkillPath("workspace", name, SKILL_MD)].content

\* s1 is in both directories; the workspace file declares an executable that
\* is not on the path and the builtin file declares nothing: s1 is listed
\* from the workspace, filtered out, and loaded from the workspace.
C19_Witness ==
  /\ InBoth("s1")
  /\ disk[SkillPath("workspace", "s1", SKILL_MD)].content = Requiring(<<"gh">>, <<>>)
  /\ disk[SkillPath("builtin", "s1", SKILL_MD)].content = Plain
  /\ osenv.path = {}
  /\ lres.listed_all /\ lres.listed_available
  /\ "s1" \in EntryNames(lres.all) /\ "s1" \notin EntryNames(lres.available)
  /\ \E call \in lres.loaded : call.name = "s1"

\* The items of the <requires> element of a <skill> element.
RequiresOf(element) ==
  IF element.requires = <<>> THEN {}
  ELSE {element.requires[1][i] : i \in 1..Len(element.requires[1])}

\* What a skill at p misses: its declared executables not on the path and
\* its declared variables unset or empty.
MissingAt(p) ==
  {<<"CLI", DeclaredAt(p).bins[i]>> : i \in {i \in 1..Len(DeclaredAt(p).bins) :
                                              DeclaredAt(p).bins[i] \notin osenv.path}}
    \cup {<<"ENV", DeclaredAt(p).env[i]>> : i \in {i \in 1..Len(DeclaredAt(p).env) :
             ~(/\ DeclaredAt(p).env[i] \in DOMAIN osenv.environ
               /\ osenv.environ[DeclaredAt(p).env[i]] # "")}}

\* C20: build_skills_summary renders a skill available exactly when every
\* executable it declares is on the path and every variable it declares is
\* set and not empty; a skill list_skills(filter_unavailable=False) lists is
\* missing from list_skills(filter_unavailable=True) exactly when it is
\* rendered available="false"; and a skill rendered unavailable has a
\* <requires> element, whose items are exactly its missing requirements.
C20_RequirementGating ==
  lres.summarized =>
    \A i \in 1..Len(lres.summary) :
      LET element == lres.summary[i]
          p == Resolved(element.name)
      IN /\ element.available = "true" <=> MetAt(p)
         /\ lres.listed_available =>
              (element.name \notin EntryNames(lres.available) <=> element.available = "false")
         /\ element.available = "false" =>
              /\ element.requires # <<>>
              /\ RequiresOf(element) = MissingAt(p)
              /\ RequiresOf(element) # {}

\* A skill declaring an executable that is not on the path and a variable
\* that is set to the empty string is rendered unavailable, naming both, and
\* is filtered out of list_skills.
C20_Witness ==
  /\ lres.summarized /\ lres.listed_available
  /\ osenv = [path |-> {}, environ |-> [name \in {"TOKEN"} |-> ""]]
  /\ \E i \in 1..Len(lres.summary) :
       /\ lres.summary[i].available = "false"
       /\ RequiresOf(lres.summary[i]) = {<<"CLI", "gh">>, <<"ENV", "TOKEN">>}
       /\ lres.summary[i].name \notin EntryNames(lres.available)
  /\ \E i \in 1..Len(lres.summary) : lres.summary[i].available = "true"

\* The watch task t takes from its batch a change to a file whose name is
\* not SKILL.md.
TakesOtherFile(t) ==
  /\ tasks[t].pc = "batch"
  /\ Len(tasks'[t].batch) < Len(tasks[t].batch)
  /\ Head(tasks[t].batch).path.file # SKILL_MD

\* C21: the watcher processes only changes to files named exactly SKILL.md:
\* when the watch task takes a change to a file of any other name, the skill
\* map stays as it is and the task does not go on to the reload callbacks.
C21_OnlySkillMd ==
  [][\A t \in Tasks :
       TakesOtherFile(t) => (skills' = skills /\ tasks'[t].pc # "callback")]_vars

\* The same for a file whose name does not end with SKILL.md.
C21_OtherSuffixSkipped ==
  [][\A t \in Tasks :
       (TakesOtherFile(t) /\ ~EndsWith(Head(tasks[t].batch).path.file, SKILL_MD))
         => (skills' = skills /\ tasks'[t].pc # "callback" /\ wlast'.op = "skipped")]_vars

\* The step is a get_or_create of a key that is not cached, so one that
\* calls _load.
LoadsKey(key) ==
  /\ last'.op = "get_or_create" /\ last'.key = key /\ last'.loaded
  /\ key \notin CacheKeys(cache)

C23_InvalidateFrame ==
  [][/\ last'.op = "invalidate" =>
          LET key == last'.key
          IN /\ files' = files /\ legacy' = legacy /\ heap' = heap
             /\ key \notin CacheKeys(cache')
             /\ IF key \notin CacheKeys(cache) THEN cache' = cache
                ELSE LET at == CacheGet(cache, key)
                     IN /\ Len(cache') = Len(cache) - 1
                        /\ \A i \in 1..Len(cache') :
                             cache'[i] = cache[IF i < at THEN i ELSE i + 1]
     /\ (last.op = "invalidate" /\ last'.op = "get_or_create" /\ last'.key = last.key) =>
          LET file == files[SessionPath(last.key)]
          IN /\ last'.loaded /\ ~last'.hit /\ last'.obj = Len(heap) + 1
             /\ files' = files
             /\ heap'[last'.obj] =
                  IF file.exists THEN ParseLines(file.lines, 1, EmptySession(last.key))
                  ELSE EmptySession(last.key)
             /\ (rt.stage = "removed" /\ rt.key = last.key) =>
                  /\ heap'[last'.obj].messages = rt.messages
                  /\ heap'[last'.obj].metadata = rt.metadata]_vars

\* With capacity 2: sessions of a:b and c, a message added to the first and
\* saved, a:b invalidated, which leaves c cached, and a:b got again, which
\* gives a third instance holding the saved message.
C23_Witness ==
  /\ max_cache_size = 2
  /\ last.op = "get_or_create" /\ last.key = KeyAB /\ last.loaded /\ last.found
  /\ rt.stage = "reloaded"
  /\ cache = <<[key |-> KeyC, obj |-> 2], [key |-> KeyAB, obj |-> 3]>>
  /\ Len(heap[3].messages) = 1 /\ heap[3].messages = heap[1].messages

\* The step is a save of the instance obj that truncates its messages.
TruncatingSave(obj) ==
  last'.op = "save" /\ last'.obj = obj /\ Len(heap[obj].messages) > max_session_messages

Appended(a, b) == Len(a) = Len(b) + 1 /\ SubSeq(a, 1, Len(b)) = b

\* a is the end of b.
IsSuffix(a, b) == Len(a) <= Len(b) /\ a = SubSeq(b, Len(b) - Len(a) + 1, Len(b))

\* C25: Session.messages is append-only.  Across every operation the
\* message list of every instance is afterwards the list before, the list
\* before with one message appended, or a suffix of the list before; and
\* get_history changes no instance.
C25_AppendOnly ==
  [][/\ \A obj \in Objs :
          \/ heap'[obj].messages = heap[obj].messages
          \/ Appended(heap'[obj].messages, heap[obj].messages)
          \/ IsSuffix(heap'[obj].messages, heap[obj].messages)
     /\ last'.op = "get_history" => heap' = heap]_vars

\* The only instance held two messages and a save with max_session_messages
\* 1 has left it the newer one.
C25_Witness ==
  /\ last.op = "save"
  /\ max_session_messages = 1
  /\ Len(heap) = 1
  /\ Len(heap[1].messages) = 1
  /\ heap[1].messages[1].timestamp = 2
  /\ files[SessionPath(KeyAB)].lines[2].timestamp = 2

\* The unconsolidated tail of a session: messages[last_consolidated:].
Unconsolidated(s) == PySliceFrom(s.messages, s.last_consolidated)

\* The result of the get_history just performed is the entries of the last
\* Len(result) messages of the unconsolidated tail, in their order.
EndOfTail ==
  LET tail == Unconsolidated(heap[last.obj])
      n == Len(last.result)
  IN /\ n <= Len(tail)
     /\ \A i \in 1..n : last.result[i] = HistoryEntry(tail[Len(tail) - n + i])

\* C26: for every max_messages >= 0, get_history(max_messages) returns at
\* most max_messages entries, and they are a contiguous run from the end of
\* the unconsolidated tail, in their original order.
C26_AtMostMaxMessages ==
  last.op = "get_history" => (Len(last.result) <= last.arg /\ EndOfTail)

\* The same for max_messages >= 1.
C26_PositiveMax ==
  (last.op = "get_history" /\ last.arg >= 1) => (Len(last.result) <= last.arg /\ EndOfTail)

\* For max_messages = 0 the result is the whole aligned tail.
C26_ZeroGivesAll ==
  (last.op = "get_history" /\ last.arg = 0) =>
    (EndOfTail /\ Len(last.result) = Len(AlignToUser(Unconsolidated(heap[last.obj]))))

\* The step is a direct call on the CommandManager.
CallsCommandManager(op) ==
  synced'.op = op /\ (synced' # synced \/ commands' # commands)

\* The entries of cm other than that of name are, in their order, those of
\* before, which held one more entry, that of name, at index at.
OthersKept(before, after, at) ==
  /\ Len(after) = Len(before) - 1
  /\ \A i \in 1..Len(after) : after[i] = before[IF i < at THEN i ELSE i + 1]

\* C27: register_command is an upsert and unregister_command a removal by
\* name.  Registering leaves the name with the skill_name given; for a name
\* that had an entry the number of commands stays and every other entry is
\* as before, in its place; for a new name the entry is added after the
\* others.  Unregistering a name leaves it without an entry and every other
\* entry as before, in order; for a name without an entry nothing changes.
C27_UpsertAndRemove ==
  [][/\ CallsCommandManager("register") =>
          LET name == synced'.name
          IN /\ OwnerOf(commands', name) = synced'.skill_name
             /\ Cardinality({i \in 1..Len(commands') : commands'[i].name = name}) = 1
             /\ IF name \in CommandNames(commands)
                THEN /\ Len(commands') = Len(commands)
                     /\ \A i \in 1..Len(commands) :
                          IF commands[i].name = name THEN commands'[i].name = name
                          ELSE commands'[i] = commands[i]
                ELSE /\ Len(commands') = Len(commands) + 1
                     /\ SubSeq(commands', 1, Len(commands)) = commands
     /\ CallsCommandManager("unregister") =>
          LET name == synced'.name
          IN /\ name \notin CommandNames(commands')
             /\ IF name \in CommandNames(commands)
                THEN OthersKept(commands, commands',
                                CHOOSE i \in 1..Len(commands) : commands[i].name = name)
                ELSE commands' = commands]_vars

\* c1, synced from the skill s1, has just been registered again by another
\* owner, next to a command registered after it.
C27_Witness ==
  /\ synced.op = "register" /\ synced.name = "c1"
  /\ synced.prior = "s1" /\ synced.skill_name = "manual"
  /\ Len(commands) = 2
  /\ commands[1].name = "c1" /\ commands[1].skill_name = "manual"
  /\ commands[2].name = "x"

\* A command has just been unregistered and left another one in place.
C27_WitnessRemoved ==
  /\ synced.op = "unregister" /\ synced.prior # ""
  /\ Len(commands) = 1

\* C28: every call of sync_from_skill_manager replaces the command set by
\* the commands the skills declare and fires the CommandManager's update
\* callbacks: each registered on_update callback is invoked, once, in order.
C28_SyncFiresCallbacks ==
  [][CallsCommandManager("sync") =>
       /\ CommandNames(commands') = DeclaredNames(skills)
       /\ synced'.fired = [i \in 1..Len(update_callbacks) |-> i]]_vars

\* The replacement alone: what C28 says of the command set.
C28_SyncReplaces ==
  [][CallsCommandManager("sync") => CommandNames(commands') = DeclaredNames(skills)]_vars

\* A watch task is in the middle of a reload: it has read the file and has
\* not stored the entry.
MidReload == \E t \in Tasks : tasks[t].pc = "reloading"

\* The step runs sync_from_skill_manager: as a reload callback of a watch
\* task, or called by the agent loop.
SyncRuns ==
  \/ CallsCommandManager("sync")
  \/ \E t \in Tasks : InvokesCallback(t) /\ reload_callbacks[tasks[t].cbi] = "sync"

\* Every entry of the skill map is whole: its commands are those of its
\* content, under its name.
EntriesWhole ==
  \A i \in 1..Len(skills) :
    skills[i].commands = ParseCommands(skills[i].content, skills[i].name)

\* C29: sync_from_skill_manager observes a consistent snapshot of the skill
\* map.  Whenever it runs, from the watch task's callbacks or from the agent
\* loop, no watch task is in the middle of a reload, every entry of the
\* skill map is whole, and the commands it leaves are those the skill map
\* declares.
C29_ConsistentSnapshot ==
  [][SyncRuns =>
       /\ ~MidReload
       /\ EntriesWhole
       /\ CommandNames(commands') = DeclaredNames(skills)]_vars

\* A watch task was in the middle of a reload while the agent loop had
\* synced before it, and the file it read has since changed.
C29_Witness ==
  /\ MidReload
  /\ synced.op = "sync"
  /\ \E t \in Tasks :
       /\ tasks[t].pc = "reloading"
       /\ FileAt(disk, tasks[t].change.path).content # tasks[t].content

\* The sync callback has run after a reload taken in two halves.
C29_WitnessSynced ==
  /\ wlast.op = "callback" /\ wlast.cb = "sync"
  /\ CommandNames(commands) = {"c1", "c2"}
  /\ synced.op = "sync"

\* The names of the entities escape_xml writes, after their "&".
Entities == {"amp;", "lt;", "gt;"}

\* The text holds a raw "<" or ">", or a "&" that does not start an entity.
HasRaw(text) ==
  \E i \in 1..Len(text) :
    \/ text[i] \in {"<", ">"}
    \/ text[i] = "&" /\ ~(i < Len(text) /\ text[i + 1] \in Entities)

\* The text an XML reader gets from a text content: each entity read back
\* as its character, once.
RECURSIVE Unescape(_)
Unescape(text) ==
  IF text = <<>> THEN <<>>
  ELSE IF Head(text) = "&" /\ Len(text) > 1 /\ text[2] \in Entities
       THEN <<CASE text[2] = "amp;" -> "&" [] text[2] = "lt;" -> "<" [] OTHER -> ">">>
              \o Unescape(SubSeq(text, 3, Len(text)))
       ELSE <<Head(text)>> \o Unescape(Tail(text))

\* The description of the skill an element is for: that of its file, or
\* its name.
DescriptionOf(element) ==
  LET content == FileAt(disk, element.location).content
  IN IF "description" \in DOMAIN content /\ content.description # <<>>
     THEN content.description
     ELSE Spell(element.name)

\* The name, the description and the requirements of an element are
\* escaped: no raw character, and read back they are the texts they stand for.
OthersEscaped(element) ==
  /\ ~HasRaw(element.text.name) /\ Unescape(element.text.name) = Spell(element.name)
  /\ ~HasRaw(element.text.description)
  /\ Unescape(element.text.description) = DescriptionOf(element)
  /\ ~HasRaw(element.text.requires)
  /\ element.requires # <<>> =>
       Unescape(element.text.requires) = MissingText(element.requires[1], 1)

\* C30: in the manifest build_skills_summary builds, the text content of
\* every element, name, description, location and requires, is XML-escaped:
\* it holds no raw "&", "<" or ">", and no character is escaped twice, so
\* that read back it is the text it stands for.
C30_TextEscaped ==
  lres.summarized =>
    \A i \in 1..Len(lres.summary) :
      /\ OthersEscaped(lres.summary[i])
      /\ ~HasRaw(lres.summary[i].text.location)
      /\ Unescape(lres.summary[i].text.location) = LocationText(lres.summary[i].location)

\* The same without the location.
C30_AllButLocation ==
  lres.summarized => \A i \in 1..Len(lres.summary) : OthersEscaped(lres.summary[i])


\* C31: in every reachable state of a SessionManager, whatever sequence of
\* get_or_create, save and invalidate led to it, the save of a session
\* evicted earlier included, the cache holds at most max_cache_size sessions.
\* Stated for the managers with room for at least one session.
C31_CacheBounded == max_cache_size >= 1 => Len(cache) <= max_cache_size

\* A get_or_create leaves a cache that was within max_cache_size within it,
\* and an invalidate never grows the cache: only save puts an entry in
\* without evicting.
C31_LookupKeepsBound ==
  [][/\ (last'.op = "get_or_create" /\ Len(cache) <= max_cache_size)
          => Len(cache') <= max_cache_size
     /\ last'.op = "invalidate" => Len(cache') <= Len(cache)
     /\ last'.op = "save" =>
          Len(cache') = Len(cache) + (IF last'.key \in CacheKeys(cache) THEN 0 ELSE 1)]_vars


\* C32: a save that fails with a write error leaves the state unchanged: the
\* session's messages and last_consolidated, the cache and the content of
\* the file are what they were before the call; a failed save of an
\* over-long session does not reset last_consolidated.  Stated for the
\* managers that keep at least one message.
C32_FailedSaveUnchanged ==
  [][(last'.op = "save_failed" /\ max_session_messages >= 1) =>
       /\ heap'[last'.obj].messages = heap[last'.obj].messages
       /\ heap'[last'.obj].last_consolidated = heap[last'.obj].last_consolidated
       /\ cache' = cache
       /\ files' = files]_vars

\* The part of it that is about last_consolidated, for the saves whose
\* open raises, which leave the file as it was.
C32_OffsetKeptWhenOpenRaises ==
  [][(last'.op = "save_failed" /\ max_session_messages >= 1 /\ files' = files) =>
       heap'[last'.obj].last_consolidated = heap[last'.obj].last_consolidated]_vars

\* What a failed save does keep: the messages of every session, the other
\* fields of the session, the cache and the files of the other keys.
C32_MessagesAndCacheKept ==
  [][last'.op = "save_failed" =>
       /\ \A obj \in Objs : heap'[obj].messages = heap[obj].messages
       /\ \A obj \in Objs : obj # last'.obj => heap'[obj] = heap[obj]
       /\ heap'[last'.obj].metadata = heap[last'.obj].metadata
       /\ cache' = cache
       /\ \A p \in Paths : p # SessionPath(last'.key) => files'[p] = files[p]]_vars


\* What get_or_create(key) would load from disk: whether _load finds a
\* session, and the session it builds.
OnDisk(key) == [found |-> Load(key).found, session |-> Load(key).session]

\* C33: sessions with distinct keys are isolated: each key has its own
\* file, so for two different keys k1 and k2, "a:b" and "a_b" among them,
\* saving a session under k1 never changes what get_or_create(k2) loads from
\* disk.
C33_KeysIsolated ==
  [][last'.op = "save" =>
       \A k2 \in Keys \ {last'.key} : OnDisk(k2)' = OnDisk(k2)]_vars

\* The same for the keys whose file names differ.
C33_PathsIsolated ==
  [][last'.op = "save" =>
       \A k2 \in Keys :
         SessionPath(k2) # SessionPath(last'.key) => OnDisk(k2)' = OnDisk(k2)]_vars


\* A skill map by what it maps each name to: source, content and commands.
SkillMap(sk) ==
  {[name |-> sk[i].name, source |-> sk[i].source, content |-> sk[i].content,
    commands |-> sk[i].commands] : i \in 1..Len(sk)}

\* The map a SkillManager constructed now would build; the order in which
\* iterdir gives the directories of a root does not change it.
FreshScan == LoadAllSkills(disk, dirs, CHOOSE order \in Orders(SkillDirs) : TRUE)

\* Every change made to the skill directories has been processed: the
\* watcher is back in awatch with nothing pending.
Processed ==
  /\ watch_task # 0
  /\ tasks[watch_task].pc = "awatch"
  /\ tasks[watch_task].pending = {}

\* The entry of name in a skill map.
EntryOf(sk, name) == sk[SkillIndex(sk, name)]

\* C34: hot reload refines a fresh scan: once the create, modify and delete
\* events on the workspace and global SKILL.md files have been processed,
\* the skill map, names, source, content and commands, equals the map a
\* newly constructed SkillManager would build from the same directories.
C34_ReloadRefinesScan == Processed => SkillMap(skills) = SkillMap(FreshScan)

\* Its case of a deletion: a name whose workspace file is gone and whose
\* global file is the only one left is mapped to the global definition.
C34_DeleteLeavesSurvivor ==
  Processed =>
    \A name \in SkillDirs :
      (/\ ~FileAt(disk, SkillPath("workspace", name, SKILL_MD)).exists
       /\ ~FileAt(disk, SkillPath("builtin", name, SKILL_MD)).exists
       /\ FileAt(disk, SkillPath("global", name, SKILL_MD)).exists)
      => /\ name \in SkillNames(skills)
         /\ EntryOf(skills, name).source = "global"
         /\ EntryOf(skills, name).content
              = FileAt(disk, SkillPath("global", name, SKILL_MD)).content

\* Its case of a change under the global root: a name that has a workspace
\* file and no builtin one stays mapped to the workspace definition.
C34_GlobalKeepsWorkspace ==
  Processed =>
    \A name \in SkillDirs :
      (/\ FileAt(disk, SkillPath("workspace", name, SKILL_MD)).exists
       /\ ~FileAt(disk, SkillPath("builtin", name, SKILL_MD)).exists)
      => /\ name \in SkillNames(skills)
         /\ EntryOf(skills, name).source = "workspace"

\* What does hold: every name a fresh scan would load is loaded.
C34_ScanNamesLoaded == Processed => SkillNames(FreshScan) \subseteq SkillNames(skills)


\* None, as the value of a lookup that finds nothing.
None == [name |-> "", skill_name |-> ""]

\* SkillManager.get_skill_by_command(command_name): the first skill, in
\* dict order, with a command of that name.
GetSkillByCommand(sk, command_name) ==
  LET having == {i \in 1..Len(sk) :
                   \E j \in 1..Len(sk[i].commands) : sk[i].commands[j].name = command_name}
  IN IF having = {} THEN None
     ELSE sk[CHOOSE i \in having : \A k \in having : i <= k]

\* SkillManager.get_command(name): the first command of that name, over the
\* skills in dict order and the commands of each in their order.
SkillManagerGetCommand(sk, name) ==
  LET cmds == GetCommands(sk, 1)
      named == {i \in 1..Len(cmds) : cmds[i].name = name}
  IN IF named = {} THEN None
     ELSE cmds[CHOOSE i \in named : \A k \in named : i <= k]

\* CommandManager.get_command(name): _commands.get(name).
CommandManagerGetCommand(cm, name) ==
  IF name \in CommandNames(cm)
  THEN cm[CHOOSE i \in 1..Len(cm) : cm[i].name = name]
  ELSE None

\* The skills of sk that declare a command of that name.
Declaring(sk, name) ==
  {i \in 1..Len(sk) : \E j \in 1..Len(sk[i].commands) : sk[i].commands[j].name = name}

\* C35: after sync_from_skill_manager the CommandManager and the
\* SkillManager agree on the owner of every command: for each command name,
\* CommandManager.get_command gives the skill_name that
\* SkillManager.get_command gives and the name of the skill
\* get_skill_by_command gives, also when two skills declare the name.
C35_OwnersAgree ==
  [][CallsCommandManager("sync") =>
       \A n \in CommandNames(commands') \cup DeclaredNames(skills) :
         /\ CommandManagerGetCommand(commands', n).skill_name
              = SkillManagerGetCommand(skills, n).skill_name
         /\ CommandManagerGetCommand(commands', n).skill_name
              = GetSkillByCommand(skills, n).name]_vars

\* The same for the names one skill alone declares; and the two lookups of
\* the SkillManager agree with each other for every name.
C35_AgreeWhenUnique ==
  [][CallsCommandManager("sync") =>
       \A n \in CommandNames(commands') \cup DeclaredNames(skills) :
         /\ SkillManagerGetCommand(skills, n).skill_name = GetSkillByCommand(skills, n).name
         /\ Cardinality(Declaring(skills, n)) = 1 =>
              CommandManagerGetCommand(commands', n).skill_name
                = GetSkillByCommand(skills, n).name]_vars

\* With several skills declaring a name, the CommandManager holds the last
\* of them and the SkillManager gives the first.
C35_LastAgainstFirst ==
  [][CallsCommandManager("sync") =>
       \A n \in DeclaredNames(skills) :
         /\ CommandManagerGetCommand(commands', n).skill_name
              = skills[CHOOSE i \in Declaring(skills, n) :
                         \A k \in Declaring(skills, n) : k <= i].name
         /\ GetSkillByCommand(skills, n).name
              = skills[CHOOSE i \in Declaring(skills, n) :
                         \A k \in Declaring(skills, n) : i <= k].name]_vars


\* stop_watching has been called: a caller is in it, or is past it.
StopCalled ==
  \E c \in Callers :
    \/ callers[c].waiting # 0
    \/ \E i \in 1..(callers[c].pc - 1) : callers[c].prog[i] = "stop"

\* The caller c runs start_watching in the step.
CallsStart(c) ==
  /\ callers[c].pc <= Len(callers[c].prog)
  /\ callers[c].prog[callers[c].pc] = "start"
  /\ callers'[c].pc = callers[c].pc + 1

\* C36: whenever the SkillManager has a registered watch task and
\* stop_watching has not been called, that task is alive: it has not ended.
C36_RegisteredTaskAlive ==
  (watch_task # 0 /\ ~StopCalled) => tasks[watch_task].pc # "done"

\* C36, as it is put for the caller: when the watch loop has ended by itself
\* a later start_watching starts a new watch task.
C36_RestartAfterEnd ==
  [][\A c \in Callers :
       (/\ CallsStart(c)
        /\ ~StopCalled
        /\ watch_task # 0
        /\ tasks[watch_task].pc = "done")
       => (watch_task' # watch_task /\ tasks'[watch_task'].pc = "new")]_vars

\* What does hold: a registered task whose awatch has begun and has not
\* ended is alive until stop_watching is called, and start_watching with no
\* task registered registers a new one.
C36_AliveWhileWatching ==
  [][/\ (watch_task # 0 /\ ~StopCalled /\ tasks[watch_task].pc = "awatch" /\ watch_task' # 0
         /\ ~(\E t \in Tasks : tasks'[t].pc = "stopping" /\ tasks[t].pc = "awatch"))
          => tasks'[watch_task'].pc # "done"
     /\ \A c \in Callers :
          (CallsStart(c) /\ watch_task = 0)
            => (watch_task' = Len(tasks) + 1 /\ tasks'[watch_task'].pc = "new")]_vars


\* a is the beginning of b.
IsPrefix(a, b) == Len(a) <= Len(b) /\ SubSeq(b, 1, Len(a)) = a

\* C37: after a successful save of the session of key k, a get_or_create(k)
\* that follows any sequence of get_or_create calls, evictions, invalidate
\* calls and appends returns a session with the messages and the
\* last_consolidated that save persisted: exactly those when it is read back
\* from disk, and those followed by the messages appended since when it is
\* still in the cache.
C37_SavedTurnsDurable ==
  [][(last'.op = "get_or_create" /\ persisted[last'.key].have) =>
       LET s == heap'[last'.obj]
           p == persisted[last'.key]
       IN /\ s.last_consolidated = p.last_consolidated
          /\ IF last'.loaded THEN last'.found /\ s.messages = p.messages
             ELSE IsPrefix(p.messages, s.messages)]_vars

\* A session holding a consolidated message was saved, its key left the
\* cache, and get_or_create read it back from disk with the message and the
\* last_consolidated 1 it was saved with.
C37_Witness ==
  /\ last.op = "get_or_create" /\ last.loaded /\ last.found
  /\ persisted[last.key].have
  /\ persisted[last.key].last_consolidated = 1
  /\ heap[last.obj].last_consolidated = 1
  /\ heap[last.obj].messages = persisted[last.key].messages
  /\ Len(heap[last.obj].messages) = 1
  /\ Len(heap) >= 2

\* C38: after every successful save(session) the cache entry of the
\* session's key is that same instance, and the messages and the
\* last_consolidated the instance holds are those written to its file, also
\* when the save truncated the list.
C38_SavedIsCached ==
  [][last'.op = "save" =>
       LET s == heap'[last'.obj]
           file == files'[SessionPath(last'.key)]
       IN /\ last'.key \in CacheKeys(cache')
          /\ CacheObj(cache', last'.key) = last'.obj
          /\ file.exists
          /\ Len(file.lines) = Len(s.messages) + 1
          /\ Tail(file.lines) = s.messages
          /\ Head(file.lines)._type = "metadata"
          /\ Head(file.lines).last_consolidated = s.last_consolidated]_vars

\* A save has truncated a session of two messages to the one the manager
\* keeps; the instance, which is the cache entry of its key, holds that
\* message, the one in the file.
C38_Witness ==
  /\ last.op = "save"
  /\ rt.stage = "saved" /\ Len(rt.messages) = 2
  /\ max_session_messages = 1
  /\ CacheObj(cache, last.key) = last.obj
  /\ heap[last.obj].messages = <<rt.messages[2]>>
  /\ Tail(files[SessionPath(last.key)].lines) = heap[last.obj].messages


\* The caller c is in stop_watching, suspended in its await of the watch task.
InStop(c) == c \in Callers /\ callers[c].waiting # 0

\* C39: stop_watching terminates: under fair scheduling, with reload
\* callbacks that return and a watcher that ends when its stop event is set,
\* every call of stop_watching that suspends eventually returns, also when
\* it was made while a batch is processed or while another call is pending.
C39_StopReturns == \A c \in 1..StopCallers : InStop(c) ~> ~InStop(c)

\* A stop_watching that returns leaves no watch task registered.
C39_ReturnClears ==
  [][\A c \in Callers :
       (/\ callers[c].pc <= Len(callers[c].prog)
        /\ callers[c].prog[callers[c].pc] = "stop"
        /\ callers'[c].pc = callers[c].pc + 1)
       => watch_task' = 0]_vars

\* What a pending stop_watching rests on: the task it awaits was given a
\* stop event, and that event is set.
C39_AwaitedTaskHasSignal ==
  \A c \in Callers :
    (callers[c].waiting # 0 /\ tasks[callers[c].waiting].pc = "awatch")
      => (tasks[callers[c].waiting].ev # 0 /\ events[tasks[callers[c].waiting].ev])

\* No coroutine that restarts the watcher and stops it again exists.
NoRestarter ==
  \A c \in Callers : callers[c].prog # <<"stop", "start", "stop">>

\* The calls that do return: those pending while no coroutine has restarted
\* the watcher and stopped it again.  The call that never returns is the
\* stop of the restarted watcher.
C39_StopReturnsWithoutRestart ==
  \A c \in 1..StopCallers : (InStop(c) /\ NoRestarter) ~> ~InStop(c)


\* A gateway call of the given name has just been made.
GatewayCalled(op) == glast'.tick # glast.tick /\ glast'.op = op

\* The PID file names a process that is running.
NamesLive == pid_file # 0 /\ processes[pid_file] # "none"

\* start_gateway refuses: RuntimeError, no process spawned, PID file kept.
StartRefused ==
  /\ glast'.raised
  /\ processes' = processes
  /\ starting' = starting
  /\ pid_file' = pid_file

\* The PID file is given a pid only by a start_gateway whose child was
\* running after the sleep, and the pid is the child's.
WrittenForLiveChild ==
  pid_file' # pid_file /\ pid_file' # 0 =>
    /\ GatewayCalled("start_gateway_wake")
    /\ \E i \in 1..GatewayStarters : starting[i] = pid_file' /\ starting'[i] = 0
    /\ processes[pid_file'] = "own"
    /\ ~glast'.raised

\* No PID file after stop_gateway, nor after an is_gateway_running that
\* found the recorded process gone.
AbsentAfterStop ==
  /\ GatewayCalled("stop_gateway") => pid_file' = 0
  /\ GatewayCalled("is_gateway_running") /\ pid_file # 0 /\ processes[pid_file] = "none" =>
       pid_file' = 0 /\ ~glast'.result

\* C40: start_gateway raises RuntimeError without spawning a process or
\* changing the PID file whenever the PID file names a live process; the PID
\* file is written only for a process still alive after the start-up wait;
\* and after stop_gateway, or after is_gateway_running finds the recorded
\* process dead, there is no PID file.
C40_SingleInstance ==
  [][/\ GatewayCalled("start_gateway") /\ NamesLive => StartRefused
     /\ WrittenForLiveChild
     /\ AbsentAfterStop]_vars

\* C40, its first part alone.
C40_LiveRefused == [][GatewayCalled("start_gateway") /\ NamesLive => StartRefused]_vars

\* C40, for a recorded process that the caller may signal: the start is
\* refused; the other two parts hold as stated.
C40_SignalableRefused ==
  [][/\ GatewayCalled("start_gateway") /\ pid_file # 0 /\ processes[pid_file] = "own"
          => StartRefused
     /\ WrittenForLiveChild
     /\ AbsentAfterStop]_vars

\* C40: a start_gateway that found the PID file naming another user's live
\* process removed the file and spawned a second process.
C40_ForeignSpawned ==
  /\ glast.op = "start_gateway"
  /\ ~glast.raised
  /\ pid_file = 0
  /\ \E p \in 1..GatewayPids : processes[p] = "foreign"
  /\ processes[glast.pid] = "own"
  /\ \E i \in 1..GatewayStarters : starting[i] = glast.pid

====
